---- MODULE Spec2Model ----
(***************************************************************************)
(* Model of hermes_monitor: the poll / filter / dispatch loop of main.py   *)
(* (run_loop), its product filter (filter_products) and the source client  *)
(* of get_product.py: get_all_products as run_loop calls it, and the       *)
(* candidate loop of fetch_category_soup.                                  *)
(*                                                                         *)
(* Strings are sequences of one-character strings, so that str.lower() and *)
(* the substring test "k in name" are computed, not assumed.  An optional  *)
(* value (None or a value) is a sequence of length at most one: <<>> is    *)
(* None and <<v>> is the value v.                                          *)
(***************************************************************************)
EXTENDS Integers, Sequences, FiniteSets, TLC

VARIABLES
    entry,            \* which entry point this behaviour runs: "run_loop",
                      \* "filter_products" or "fetch_category_soup"
    \* ---- a call of fetch_category_soup (get_product.py 42-72)
    category_urls,    \* the candidate URLs, in configured order
    web,              \* URL -> what a request of it leads to
    url_pos,          \* position of the for loop in category_urls
    requested,        \* the URLs requested so far, in order (history)
    soup,             \* << >> while the call runs, then << its return value >>
    fail_args,        \* the arguments pause_minutes_on_fail and sleep_on_fail
    slept,            \* seconds the call has spent in time.sleep
    \* ---- a direct call of extract_products_from_soup
    soup_document,    \* the <a> elements of the document, in document order
    anchor_pos,       \* position of the for loop in the anchors
    parsed,           \* get_product.py 167: the dict products, in insertion order
    extracted,        \* << >> while the call runs, then << its return value >>
    \* ---- a direct call of filter_products
    f_args,           \* the arguments of the call
    f_result,         \* <<>> before the call returns, <<list>> after
    \* ---- run_loop
    config,           \* what run_loop reads once at startup (main.py 315-458)
    store,            \* the recipient-preference file line_users.json
    pc,               \* position of run_loop inside the while loop, or the call
                      \* whose exception ended run_loop
    clock,            \* wall clock, seconds
    round,            \* number of the current round, from 1
    now,              \* main.py 474: the round's timestamp
    seen,             \* main.py 361: URLs already broadcast
    next_allowed,     \* main.py 460-462: fr/tw/jp_next_allowed
    line_user_prefs,  \* main.py 466
    line_round_seen,  \* main.py 463: user_id -> URLs sent this round
    products,         \* region -> the product list fetched this round
    combined_products,\* main.py 522
    filtered,         \* main.py 524
    to_notify,        \* main.py 538
    \* ---- observation of the run (history)
    fetched,          \* region -> what happened to its fetch this round
    last_fail,        \* secondary variant -> <<t>> when its latest attempted fetch failed, in the round of timestamp t
    main_failed,      \* a fetch of the primary variant failed in an earlier round
    sent,             \* the sends attempted this round, in order
    bcast_hist,       \* <<url, chat_id>> broadcast in an earlier round
    bcast_over,       \* <<>> or <<the list the broadcast filter was run over>>
    line_over,        \* <<>> or <<the list the per-recipient loop ran over>>
    delivered,        \* << >> or <<whether Telegram accepted the round's broadcast posts>>
    \* ---- the webhook process, webhook_users.py
    users_json,       \* the file line_users.json as the webhook process finds it
    handler           \* position and locals of Handler._maybe_update_name

vars == << entry, category_urls, web, url_pos, requested, soup, fail_args, slept,
           soup_document,
           anchor_pos, parsed, extracted, f_args, f_result, config, store, pc, clock, round, now, seen,
           next_allowed, line_user_prefs, line_round_seen, products,
           combined_products, filtered, to_notify, fetched, last_fail, main_failed, sent,
           bcast_hist, bcast_over, line_over, delivered, users_json, handler >>

loop_vars == << config, store, pc, clock, round, now, seen, next_allowed,
                line_user_prefs, line_round_seen, products, combined_products,
                filtered, to_notify, fetched, last_fail, main_failed, sent, bcast_hist,
                bcast_over, line_over, delivered >>

call_vars == << f_args, f_result >>

soup_vars == << category_urls, web, url_pos, requested, soup, fail_args, slept >>

extract_vars == << soup_document, anchor_pos, parsed, extracted >>

hook_vars == << users_json, handler >>

None == << >>
Some(v) == << v >>

-----------------------------------------------------------------------------
(* Strings                                                                 *)

UpperLetters == << "A","B","C","D","E","F","G","H","I","J","K","L","M",
                   "N","O","P","Q","R","S","T","U","V","W","X","Y","Z" >>
LowerLetters == << "a","b","c","d","e","f","g","h","i","j","k","l","m",
                   "n","o","p","q","r","s","t","u","v","w","x","y","z" >>

\* str.lower() on one character
lower_char(c) ==
    IF \E i \in DOMAIN UpperLetters : UpperLetters[i] = c
    THEN LowerLetters[CHOOSE i \in DOMAIN UpperLetters : UpperLetters[i] = c]
    ELSE c

\* str.lower()
lower(s) == IF s = << >> THEN << >> ELSE [i \in 1..Len(s) |-> lower_char(s[i])]

\* Python's "sub in s" on strings; the empty string is in every string
str_in(sub, s) ==
    \E i \in 0..(Len(s) - Len(sub)) : SubSeq(s, i + 1, i + Len(sub)) = sub

\* Python's "x in list"
in_list(x, list) == \E i \in 1..Len(list) : list[i] = x

\* [f(x) for x in list if x] for strings: drops the empty ones
non_empty(list) == SelectSeq(list, LAMBDA k : k # << >>)

lower_all(list) == IF list = << >> THEN << >> ELSE [i \in 1..Len(list) |-> lower(list[i])]

-----------------------------------------------------------------------------
(* filter_products, main.py 137-182                                        *)

\* C12 mutant: the last matching include keyword is recorded, not the first
matched_include_last(include_pairs, name) ==
    IF \E i \in 1..Len(include_pairs) : str_in(lower(include_pairs[i]), name)
    THEN Some(include_pairs[
            CHOOSE i \in 1..Len(include_pairs) :
                /\ str_in(lower(include_pairs[i]), name)
                /\ \A j \in (i + 1)..Len(include_pairs) :
                      ~ str_in(lower(include_pairs[j]), name)])
    ELSE None

\* main.py 164-168: the first include keyword (raw) whose lowered form is in name
matched_include_of(include_pairs, name) ==
    IF \E i \in 1..Len(include_pairs) : str_in(lower(include_pairs[i]), name)
    THEN Some(include_pairs[
            CHOOSE i \in 1..Len(include_pairs) :
                /\ str_in(lower(include_pairs[i]), name)
                /\ \A j \in 1..(i - 1) : ~ str_in(lower(include_pairs[j]), name)])
    ELSE None

\* C11 mutant: the region of the product is not compared with the allow-list
region_gate_open(product, allowed_regions_lower) == TRUE

\* main.py 160-162
region_gate(product, allowed_regions_lower) ==
    LET region == lower(product.region)
    IN  allowed_regions_lower = None
        \/ (region # << >> /\ in_list(region, allowed_regions_lower[1]))

\* main.py 169-170
include_gate(include_pairs, matched_include) ==
    ~ (include_pairs # << >> /\ matched_include = None)

\* main.py 171-172
exclude_gate(exclude_lower, name) ==
    ~ \E i \in 1..Len(exclude_lower) : str_in(exclude_lower[i], name)

\* C10 mutant: the include override of the category gate inverted
only_bags_gate_inverted(only_bags, product, matched_include) ==
    ~ (only_bags /\ ~ product.is_bag /\ matched_include # None)

\* main.py 174-175
only_bags_gate(only_bags, product, matched_include) ==
    ~ (only_bags /\ ~ product.is_bag /\ matched_include = None)

\* main.py 176-177
available_gate(require_available, product) ==
    ~ (require_available /\ product.unavailable)

\* main.py 179-180: dict(product) plus _matched_include
annotated(product, matched_include) ==
    [ name |-> product.name, url |-> product.url,
      unavailable |-> product.unavailable, is_bag |-> product.is_bag,
      region |-> product.region, matched_include |-> matched_include ]

\* C8 mutant: an include match overrides the exclude gate
filter_one_include_wins(product, include_pairs, exclude_lower, require_available, only_bags, allowed_regions_lower) ==
    LET name == lower(product.name)
        matched_include == matched_include_of(include_pairs, name)
    IN  IF /\ region_gate(product, allowed_regions_lower)
           /\ include_gate(include_pairs, matched_include)
           /\ (matched_include # None \/ exclude_gate(exclude_lower, name))
           /\ only_bags_gate(only_bags, product, matched_include)
           /\ available_gate(require_available, product)
        THEN << annotated(product, matched_include) >>
        ELSE << >>

\* C9 mutant: an include match overrides the availability gate
filter_one_include_available(product, include_pairs, exclude_lower, require_available, only_bags, allowed_regions_lower) ==
    LET name == lower(product.name)
        matched_include == matched_include_of(include_pairs, name)
    IN  IF /\ region_gate(product, allowed_regions_lower)
           /\ include_gate(include_pairs, matched_include)
           /\ exclude_gate(exclude_lower, name)
           /\ only_bags_gate(only_bags, product, matched_include)
           /\ (matched_include # None \/ available_gate(require_available, product))
        THEN << annotated(product, matched_include) >>
        ELSE << >>

\* main.py 155-181: one iteration of the loop, << >> when the product is skipped
filter_one(product, include_pairs, exclude_lower, require_available, only_bags, allowed_regions_lower) ==
    LET name == lower(product.name)
        matched_include == matched_include_of(include_pairs, name)
    IN  IF /\ region_gate(product, allowed_regions_lower)
           /\ include_gate(include_pairs, matched_include)
           /\ exclude_gate(exclude_lower, name)
           /\ only_bags_gate(only_bags, product, matched_include)
           /\ available_gate(require_available, product)
        THEN << annotated(product, matched_include) >>
        ELSE << >>

RECURSIVE filter_loop(_, _, _, _, _, _)
filter_loop(prods, include_pairs, exclude_lower, require_available, only_bags, allowed_regions_lower) ==
    IF prods = << >> THEN << >>
    ELSE filter_one(Head(prods), include_pairs, exclude_lower,
                    require_available, only_bags, allowed_regions_lower)
         \o filter_loop(Tail(prods), include_pairs, exclude_lower,
                        require_available, only_bags, allowed_regions_lower)

\* allowed_regions is None or Some(list)
filter_products(prods, include_keywords, exclude_keywords, require_available, only_bags, allowed_regions) ==
    LET include_pairs == non_empty(include_keywords)
        exclude_lower == lower_all(non_empty(exclude_keywords))
        allowed_regions_lower ==
            IF allowed_regions = None THEN None
            ELSE Some(lower_all(non_empty(allowed_regions[1])))
    IN  IF allowed_regions_lower # None /\ allowed_regions_lower[1] = << >>
        THEN << >>
        ELSE filter_loop(prods, include_pairs, exclude_lower,
                         require_available, only_bags, allowed_regions_lower)

-----------------------------------------------------------------------------
(* is_bag_item, get_product.py 75-98.  The tokens with a non-ASCII letter   *)
(* (bandouliere with a grave accent, "sac a main" and "sac a dos" with an   *)
(* accented a) cannot match a name over ASCII letters and are left out.     *)

exclude_tokens == << << "s", "t", "r", "a", "p" >>,
                     << "s", "h", "o", "u", "l", "d", "e", "r", " ", "s", "t", "r", "a", "p" >>,
                     << "b", "a", "n", "d", "o", "u", "l", "i", "e", "r", "e" >>,
                     << "b", "e", "l", "t" >>,
                     << "c", "e", "i", "n", "t", "u", "r", "e" >> >>

bag_tokens == << << "b", "a", "g" >>, << "s", "a", "c" >>, << "s", "a", "c", "o", "c", "h", "e" >>,
                 << "s", "a", "c", " ", "a", " ", "m", "a", "i", "n" >>,
                 << "p", "o", "u", "c", "h" >>, << "p", "o", "c", "h", "e", "t", "t", "e" >>,
                 << "c", "l", "u", "t", "c", "h" >>, << "b", "a", "c", "k", "p", "a", "c", "k" >>,
                 << "s", "a", "c", " ", "a", " ", "d", "o", "s" >>,
                 << "c", "a", "b" >>, << "h", "o", "b", "o" >>, << "t", "o", "t", "e" >>,
                 << "b", "e", "s", "a", "c", "e" >> >>

is_bag_item(name) ==
    LET n == lower(name)
    IN  IF \E i \in 1..Len(exclude_tokens) : str_in(exclude_tokens[i], n)
        THEN FALSE
        ELSE \E i \in 1..Len(bag_tokens) : str_in(bag_tokens[i], n)

-----------------------------------------------------------------------------
(* The strings the model draws its inputs from                             *)

s_kelly_bag   == << "K", "e", "l", "l", "y", " ", "B", "a", "g" >>
s_kelly_strap == << "K", "e", "l", "l", "y", " ", "S", "t", "r", "a", "p" >>
s_silk_scarf  == << "S", "i", "l", "k", " ", "S", "c", "a", "r", "f" >>
k_kelly       == << "k", "e", "l", "l", "y" >>
k_KELLY       == << "K", "E", "L", "L", "Y" >>
k_scarf       == << "s", "c", "a", "r", "f" >>
k_strap       == << "s", "t", "r", "a", "p" >>
k_STRAP       == << "S", "T", "R", "A", "P" >>
k_belt        == << "b", "e", "l", "t" >>
k_charm       == << "c", "h", "a", "r", "m" >>
k_twilly      == << "t", "w", "i", "l", "l", "y" >>
r_EU_MAIN     == << "E", "U", "_", "M", "A", "I", "N" >>
r_FR          == << "F", "R" >>
r_TW          == << "T", "W" >>
r_JP          == << "J", "P" >>
r_fr          == << "f", "r" >>

\* main.py 43
DEFAULT_EXCLUDE == << k_strap, k_belt, k_charm, k_twilly >>
\* main.py 42
DEFAULT_INCLUDE == << >>

-----------------------------------------------------------------------------
(* Inputs of run_loop: the catalog documents a fetch may return, the        *)
(* startup configuration and the recipient-preference file                  *)

\* main.py 40
DEFAULT_MIN_SECONDS == 30
\* main.py 41
DEFAULT_MAX_SECONDS == 75
\* rounds a behaviour runs for
MaxRounds == 3

Secondary == { "FR", "TW", "JP" }
Regions   == { "EU_MAIN" } \cup Secondary

\* the region tag of a variant, main.py 472, 481, 495, 509
region_tag(v) ==
    CASE v = "EU_MAIN" -> r_EU_MAIN
      [] v = "FR" -> r_FR
      [] v = "TW" -> r_TW
      [] v = "JP" -> r_JP

\* get_product.py 218-225: a record as extract_products_from_soup builds it
record(name, url, unavailable) ==
    [ name |-> name, url |-> url, unavailable |-> unavailable,
      is_bag |-> is_bag_item(name), region |-> << >> ]

kelly_avail   == record(s_kelly_bag, "u1", FALSE)
kelly_unavail == record(s_kelly_bag, "u1", TRUE)
scarf_avail   == record(s_silk_scarf, "u2", FALSE)
scarf_unavail == record(s_silk_scarf, "u2", TRUE)
strap_avail   == record(s_kelly_strap, "u3", FALSE)

\* What get_all_products may return for a variant (get_product.py 270-288):
\* ok = FALSE is fetch_category_soup returning None (every candidate URL
\* failed), ok = TRUE a fetched document with the records extracted from it.
Documents(v) ==
    IF v = "EU_MAIN"
    THEN { << kelly_avail, scarf_unavail >>, << kelly_unavail, scarf_avail >> }
    ELSE IF v = "FR"
    THEN { << >>, << kelly_avail >>, << scarf_unavail, strap_avail >> }
    ELSE { << kelly_avail >> }

FetchOutcomes(v) ==
    { [ ok |-> FALSE, list |-> << >> ] }
    \cup { [ ok |-> TRUE, list |-> d ] : d \in Documents(v) }

\* dict(item, region=...), main.py 472
tag(list, v) ==
    IF list = << >> THEN << >>
    ELSE [ i \in 1..Len(list) |-> [ list[i] EXCEPT !.region = region_tag(v) ] ]

\* A rule set: the filter settings of the broadcast path (main.py 317-321)
\* or of one recipient (main.py 576-580)
rule(include, exclude, ra, ob) ==
    [ include_keywords |-> include, exclude_keywords |-> exclude,
      require_available |-> ra, only_bags |-> ob ]

BroadcastRules ==
    { rule(DEFAULT_INCLUDE, DEFAULT_EXCLUDE, TRUE, TRUE),
      rule(<< k_scarf >>, << >>, TRUE, TRUE),
      rule(<< >>, << >>, FALSE, FALSE) }

\* which secondary variants have a category_url, and their pause_minutes_on_fail
FROnly ==
    [ FR |-> [ configured |-> TRUE,  pause_minutes_on_fail |-> 1 ],
      TW |-> [ configured |-> FALSE, pause_minutes_on_fail |-> 5 ],
      JP |-> [ configured |-> FALSE, pause_minutes_on_fail |-> 5 ] ]

AllVariants ==
    [ FR |-> [ configured |-> TRUE,  pause_minutes_on_fail |-> 1 ],
      TW |-> [ configured |-> TRUE,  pause_minutes_on_fail |-> 0 ],
      JP |-> [ configured |-> TRUE,  pause_minutes_on_fail |-> 2 ] ]

\* main.py 315-358, 399-458: the values run_loop keeps from startup
\* the section "polling" of the configuration file: a key it lacks is None
polling(min_cfg, max_cfg) == [ min_seconds |-> min_cfg, max_seconds |-> max_cfg ]

no_polling == polling(None, None)

\* main.py 324
min_seconds_of(p) ==
    LET configured == IF p.min_seconds = None THEN DEFAULT_MIN_SECONDS ELSE p.min_seconds[1]
    IN  IF configured >= 1 THEN configured ELSE 1

\* C29 mutant: the maximum is taken as configured
max_seconds_as_configured(p) ==
    IF p.max_seconds = None THEN DEFAULT_MAX_SECONDS ELSE p.max_seconds[1]

\* main.py 325
max_seconds_of(p) ==
    LET configured == IF p.max_seconds = None THEN DEFAULT_MAX_SECONDS ELSE p.max_seconds[1]
    IN  IF configured >= min_seconds_of(p) THEN configured ELSE min_seconds_of(p)

cfg_of(f, tg, sep, ln, vs) ==
    [ filter |-> f,
      polling |-> no_polling,
      min_seconds |-> min_seconds_of(no_polling),
      max_seconds |-> max_seconds_of(no_polling),
      telegram_enabled |-> tg,
      chat_ids |-> << "c1", "c2" >>,
      heartbeat_env |-> None,
      send_every_poll |-> sep,
      line_base_enabled |-> ln,
      scraper |-> vs ]

\* One record of line_users.json.  A key the record lacks is None here.
\* notify_until: kind "time" is an ISO timestamp, read as seconds of clock.
pref(user_id, until, include, exclude, ra, ob, regions) ==
    [ user_id |-> user_id, notify_until |-> until,
      include_keywords |-> include, exclude_keywords |-> exclude,
      require_available |-> ra, only_bags |-> ob, regions |-> regions ]

until_time(t) == Some([ kind |-> "time", at |-> t ])

no_users == [ kind |-> "list", users |-> << >> ]

two_users ==
    [ kind |-> "list", users |->
        << pref("ua", until_time(40), Some(<< >>), Some(<< >>),
                Some(TRUE), Some(TRUE), None),
           pref("ub", until_time(1000), Some(<< k_KELLY, k_scarf >>), Some(<< k_STRAP >>),
                Some(TRUE), Some(TRUE), Some(<< r_fr, r_EU_MAIN >>)) >> ]

\* one recipient whose subscription lapses after the first rounds
one_user ==
    [ kind |-> "list", users |->
        << pref("ua", until_time(40), Some(<< >>), Some(<< >>),
                Some(TRUE), Some(TRUE), None) >> ]

\* the file after an edit: the subscription of "ua" renewed and its keywords
\* and availability setting changed, and three new recipients: "ub" whose
\* record has the user id, notify_until and regions only, "uc" whose record
\* has the user id and notify_until only, "ud" whose record has the user id
\* only
edited_users ==
    [ kind |-> "list", users |->
        << pref("ua", until_time(1000), Some(<< k_scarf >>), Some(<< >>),
                Some(FALSE), Some(TRUE), None),
           pref("ub", until_time(1000), None, None, None, None,
                Some(<< r_EU_MAIN >>)),
           pref("uc", until_time(1000), None, None, None, None, None),
           pref("ud", None, None, None, None, None, None) >> ]

\* the file after the webhook handled an event of the unknown user "ub"
\* (webhook_users.py 121-140): the records it read and a record for "ub"
\* with the default of every field (12-29), notify_until yesterday midnight
joined_users ==
    [ kind |-> "list", users |->
        << pref("ua", until_time(40), Some(<< >>), Some(<< >>),
                Some(TRUE), Some(TRUE), None),
           pref("ub", until_time(-1), Some(<< >>), Some(<< >>),
                Some(TRUE), Some(TRUE), Some(<< >>)) >> ]

\* main.py 63-64: there is no file at the path
missing_file == [ kind |-> "missing", users |-> << >> ]

\* main.py 67-69: the file parses to a mapping that holds the records under
\* a key, not to a list
not_a_list == [ kind |-> "mapping", users |-> one_user.users ]

\* the file after the webhook handled an event of the user "ub" when it
\* found no file or no list (webhook_users.py 115-140): the one record of "ub"
first_user ==
    [ kind |-> "list", users |->
        << pref("ub", until_time(-1), Some(<< >>), Some(<< >>),
                Some(TRUE), Some(TRUE), Some(<< >>)) >> ]

\* the edits of the file an operator makes while run_loop runs: << before, after >>
StoreEdits == { << no_users, one_user >>, << one_user, edited_users >> }

\* the rewrites of the file the webhook makes while run_loop runs: << before, after >>
WebhookWrites ==
    { << one_user, joined_users >>, << missing_file, first_user >>,
      << not_a_list, first_user >> }

\* webhook_users.py 139: the file opened with mode "w" is empty until
\* json.dump has written; users is what the dump is going to write
being_written(st) == [ kind |-> "partial", users |-> st.users ]

default_rule == rule(DEFAULT_INCLUDE, DEFAULT_EXCLUDE, TRUE, TRUE)

\* main.py 323-325: run_loop started with the section "polling" p
with_polling(cfg, p) ==
    [ cfg EXCEPT !.polling = p,
                 !.min_seconds = min_seconds_of(p),
                 !.max_seconds = max_seconds_of(p) ]

\* a minimum below one second, a maximum below the minimum, a maximum
\* below the default minimum
Pollings == { polling(Some(0), Some(2)), polling(Some(90), Some(10)), polling(None, Some(20)) }

\* the startup states the model runs the loop from
Scenarios ==
    { [ config |-> cfg_of(f, TRUE, sep, TRUE, FROnly), store |-> two_users ] :
        f \in BroadcastRules, sep \in BOOLEAN }
    \cup { [ config |-> cfg_of(default_rule, FALSE, FALSE, ln, FROnly), store |-> st ] :
        ln \in BOOLEAN, st \in { no_users, two_users } }
    \cup { [ config |-> cfg_of(default_rule, TRUE, FALSE, TRUE, AllVariants),
             store |-> two_users ] }
    \cup { [ config |-> cfg_of(default_rule, FALSE, FALSE, TRUE, FROnly),
             store |-> one_user ] }
    \cup { [ config |-> cfg_of(default_rule, TRUE, FALSE, TRUE, FROnly), store |-> st ] :
        st \in { missing_file, not_a_list } }
    \cup { [ config |-> with_polling(cfg_of(default_rule, FALSE, FALSE, FALSE, FROnly), p),
             store |-> two_users ] : p \in Pollings }

-----------------------------------------------------------------------------
(* run_loop, main.py 314-620: the operators of one round                   *)

UserIds == { "ua", "ub", "uc", "ud" }

\* dict.get(key, default) on a key that may be absent
get(opt, default) == IF opt = None THEN default ELSE opt[1]

\* C32 mutant: the records are returned whatever holds them
load_line_user_prefs_any(st) == st.users

\* main.py 61-73: a file that is empty or holds the beginning of a JSON
\* text loads as None or fails to parse, and the result is []; so is the
\* result when there is no file or the file holds no list
load_line_user_prefs(st) == IF st.kind = "list" THEN st.users ELSE << >>

\* main.py 467
line_user_ids(prefs) ==
    LET with_id == SelectSeq(prefs, LAMBDA p : p.user_id # "")
    IN  IF with_id = << >> THEN << >>
        ELSE [ i \in 1..Len(with_id) |-> with_id[i].user_id ]

\* main.py 468
line_enabled(cfg, prefs) == cfg.line_base_enabled /\ line_user_ids(prefs) # << >>

\* C3 mutant: no cooldown gate
fetch_allowed_always(t, next_allowed_at) == TRUE

\* main.py 479, 493, 507: the cooldown gate of a secondary variant
fetch_allowed(t, next_allowed_at) == t >= next_allowed_at

\* main.py 482-483: next_allowed after a fetch that returned list at time t
next_allowed_after(list, t, next_allowed_at, pause_minutes_on_fail) ==
    IF list = << >> THEN t + 60 * pause_minutes_on_fail ELSE next_allowed_at

\* C6 mutant: a skipped variant has its cooldown pushed forward
next_allowed_pushed(t, next_allowed_at, pause_minutes_on_fail) ==
    t + 60 * pause_minutes_on_fail

\* main.py 488-490: next_allowed of a variant skipped for cooldown
next_allowed_skipped(t, next_allowed_at, pause_minutes_on_fail) == next_allowed_at

\* main.py 522
combine(prods) == prods["EU_MAIN"] \o prods["FR"] \o prods["TW"] \o prods["JP"]

\* C1 mutant: the global seen set is not consulted
to_notify_raw_unseen(filt, seen_urls, send_every_poll) == filt

\* main.py 535
to_notify_raw(filt, seen_urls, send_every_poll) ==
    IF send_every_poll THEN filt
    ELSE SelectSeq(filt, LAMBDA item : item.url \notin seen_urls)

\* C2 mutant: no dedup by URL within the round
dedup_round_off(raw, round_seen_urls) == raw

\* main.py 537-545
RECURSIVE dedup_round(_, _)
dedup_round(raw, round_seen_urls) ==
    IF raw = << >> THEN << >>
    ELSE LET item == Head(raw)
             url == item.url
         IN  IF url # "" /\ url \in round_seen_urls
             THEN dedup_round(Tail(raw), round_seen_urls)
             ELSE << item >> \o dedup_round(Tail(raw),
                     IF url # "" THEN round_seen_urls \cup { url } ELSE round_seen_urls)

\* main.py 547-550: the items of to_notify the send loop does not skip
notified(tn, require_available) ==
    SelectSeq(tn, LAMBDA item : ~ (require_available /\ item.unavailable))

\* C31 mutant: the URL is recorded in notify-every-poll mode too
seen_after_always(seen_urls, items, send_every_poll) ==
    seen_urls \cup { items[i].url : i \in { j \in 1..Len(items) : items[j].url # "" } }

\* main.py 551-554
seen_after(seen_urls, items, send_every_poll) ==
    IF send_every_poll THEN seen_urls
    ELSE seen_urls \cup { items[i].url : i \in { j \in 1..Len(items) : items[j].url # "" } }

\* main.py 300 and 306: the "Matched include:" line of the message of item
matched_shown(item) ==
    IF item.matched_include = None \/ item.matched_include = Some(<< >>)
    THEN << "-" >>
    ELSE item.matched_include[1]

\* one attempted send: send_telegram (main.py 185) or send_line (main.py 205)
send(chan, to, kind, item, require_available) ==
    [ chan |-> chan, to |-> to, kind |-> kind, item |-> item,
      require_available |-> require_available ]

\* main.py 557-559
RECURSIVE telegram_fanout(_, _, _)
telegram_fanout(chat_ids, item, require_available) ==
    IF chat_ids = << >> THEN << >>
    ELSE << send("telegram", Head(chat_ids), "product", item, require_available) >>
         \o telegram_fanout(Tail(chat_ids), item, require_available)

\* main.py 547-559
RECURSIVE broadcast_sends(_, _, _)
broadcast_sends(items, cfg, require_available) ==
    IF items = << >> THEN << >>
    ELSE (IF cfg.telegram_enabled
          THEN telegram_fanout(cfg.chat_ids, Head(items), require_available)
          ELSE << >>)
         \o broadcast_sends(Tail(items), cfg, require_available)

\* C15 mutant: notify_until is required but not compared with the time
pref_active_any_time(p, t) ==
    /\ p.user_id # ""
    /\ p.notify_until # None
    /\ p.notify_until[1].kind = "time"

\* main.py 564-575: the recipient is not skipped at time t
pref_active(p, t) ==
    /\ p.user_id # ""
    /\ p.notify_until # None
    /\ p.notify_until[1].kind = "time"
    /\ ~ (t > p.notify_until[1].at)

\* C7 mutant: the per-recipient loop runs over the broadcast-filtered list
line_items_filtered(combined, filt) == filt

\* main.py 583: the list the per-recipient loop iterates over
line_items(combined, filt) == combined

pref_rule_lenient(p) ==
    [ include_keywords |-> get(p.include_keywords, << >>),
      exclude_keywords |-> get(p.exclude_keywords, << >>),
      require_available |-> get(p.require_available, FALSE),
      only_bags |-> get(p.only_bags, FALSE),
      regions |-> p.regions ]

\* main.py 576-581: the rule set of a recipient record, a field the record
\* omits read with the default of pref.get
pref_rule(p) ==
    [ include_keywords |-> get(p.include_keywords, << >>),
      exclude_keywords |-> get(p.exclude_keywords, << >>),
      require_available |-> get(p.require_available, TRUE),
      only_bags |-> get(p.only_bags, TRUE),
      regions |-> p.regions ]

\* main.py 583-600 for one recipient: the sends and the recipient's seen_urls
RECURSIVE item_loop(_, _, _)
item_loop(items, p, seen_urls) ==
    IF items = << >> THEN [ seen_urls |-> seen_urls, sends |-> << >> ]
    ELSE LET item == Head(items)
             url == item.url
             mine == pref_rule(p)
             req_avail == mine.require_available
             user_filtered ==
                 filter_products(<< item >>,
                                 mine.include_keywords,
                                 mine.exclude_keywords,
                                 req_avail,
                                 mine.only_bags,
                                 mine.regions)
             skip == (url # "" /\ url \in seen_urls) \/ user_filtered = << >>
             rest == item_loop(Tail(items), p,
                         IF ~ skip /\ url # "" THEN seen_urls \cup { url } ELSE seen_urls)
         IN  IF skip THEN rest
             ELSE [ seen_urls |-> rest.seen_urls,
                    sends |-> << send("line", p.user_id, "product",
                                      annotated(item, None), req_avail) >>
                              \o rest.sends ]

\* main.py 563-600
RECURSIVE user_loop(_, _, _, _)
user_loop(prefs, items, round_seen, t) ==
    IF prefs = << >> THEN [ round_seen |-> round_seen, sends |-> << >> ]
    ELSE LET p == Head(prefs)
         IN  IF ~ pref_active(p, t)
             THEN user_loop(Tail(prefs), items, round_seen, t)
             ELSE LET mine == item_loop(items, p, round_seen[p.user_id])
                      rest == user_loop(Tail(prefs), items,
                                  [ round_seen EXCEPT ![p.user_id] = mine.seen_urls ], t)
                  IN  [ round_seen |-> rest.round_seen,
                        sends |-> mine.sends \o rest.sends ]

\* main.py 597-598: seen_urls of each recipient after the sends
seen_by(sends, round_seen) ==
    [ u \in UserIds |->
        round_seen[u] \cup { sends[i].item.url :
                                i \in { j \in 1..Len(sends) :
                                          sends[j].to = u /\ sends[j].item.url # "" } } ]

\* main.py 604-608
heartbeat_target(cfg) ==
    IF cfg.heartbeat_env # None THEN cfg.heartbeat_env
    ELSE IF cfg.chat_ids # << >> THEN Some(cfg.chat_ids[1]) ELSE None

\* main.py 610-615: the heartbeat carries the per-variant counts
heartbeat_item(prods) ==
    [ main |-> Len(prods["EU_MAIN"]), fr |-> Len(prods["FR"]),
      tw |-> Len(prods["TW"]), jp |-> Len(prods["JP"]) ]

-----------------------------------------------------------------------------
(* A direct call of filter_products on one product                         *)

CallNames    == { << >>, s_kelly_bag, s_kelly_strap, s_silk_scarf }
CallIncludes == { << >>, << k_kelly >>, << k_scarf, k_KELLY >>, << << >> >>,
                  << << >>, k_strap, k_KELLY >> }
CallExcludes == { << >>, << k_strap >>, << k_belt, k_STRAP >>, << << >> >> }
CallRegions  == { None, Some(<< >>), Some(<< r_fr >>), Some(<< << >>, r_TW >>) }

CallArgs ==
    [ product : [ name : CallNames, url : { "u1" }, unavailable : BOOLEAN,
                  is_bag : BOOLEAN, region : { << >>, r_FR, r_TW } ],
      include_keywords : CallIncludes,
      exclude_keywords : CallExcludes,
      require_available : BOOLEAN,
      only_bags : BOOLEAN,
      allowed_regions : CallRegions ]

no_call ==
    [ product |-> [ name |-> << >>, url |-> "u1", unavailable |-> FALSE,
                    is_bag |-> FALSE, region |-> << >> ],
      include_keywords |-> << >>, exclude_keywords |-> << >>,
      require_available |-> FALSE, only_bags |-> FALSE,
      allowed_regions |-> None ]

\* main.py 137-182
CallFilter ==
    /\ entry = "filter_products"
    /\ f_result = None
    /\ f_result' = Some(filter_products(<< f_args.product >>,
                                        f_args.include_keywords,
                                        f_args.exclude_keywords,
                                        f_args.require_available,
                                        f_args.only_bags,
                                        f_args.allowed_regions))
    /\ UNCHANGED << entry, f_args, loop_vars, soup_vars, extract_vars, hook_vars >>

-----------------------------------------------------------------------------
(* extract_products_from_soup, get_product.py 101-228                      *)
(*                                                                         *)
(* A document is the sequence of its <a> elements in document order.  An   *)
(* element is its text, its href and its card: what the container four     *)
(* parents up holds (lines 182-186), as the value the attribute hints of   *)
(* lines 127-145 give and the lines of its text.  A text is a sequence of  *)
(* characters; the euro sign is the one-element text "EUR" and the yen     *)
(* sign "YEN".  A href is a sequence of pieces.                            *)

Digits == { "0", "1", "2", "3", "4", "5", "6", "7", "8", "9" }

\* str.strip() for blanks
strip(s) ==
    LET inked == { i \in 1..Len(s) : s[i] # " " }
    IN  IF inked = { } THEN << >>
        ELSE SubSeq(s, CHOOSE i \in inked : \A j \in inked : i <= j,
                       CHOOSE i \in inked : \A j \in inked : j <= i)

\* line.split(":", 1)[1] of a line that holds a colon
after_colon(line) ==
    LET at == CHOOSE i \in 1..Len(line) : line[i] = ":" /\ \A j \in 1..(i - 1) : line[j] # ":"
    IN  SubSeq(line, at + 1, Len(line))

\* get_product.py 101-105
pick_price_line(lines) ==
    IF \E i \in 1..Len(lines) : \E j \in 1..Len(lines[i]) : lines[i][j] \in Digits
    THEN Some(lines[CHOOSE i \in 1..Len(lines) :
                    /\ \E j \in 1..Len(lines[i]) : lines[i][j] \in Digits
                    /\ \A k \in 1..(i - 1) : \A j \in 1..Len(lines[k]) : lines[k][j] \notin Digits])
    ELSE None

\* get_product.py 110; the three labels in CJK script cannot be written here
color_labels == { << "c", "o", "l", "o", "r" >>, << "c", "o", "u", "l", "e", "u", "r" >>, << "f", "a", "r", "b", "e" >>, << "c", "o", "l", "o", "r", "i", "s" >> }

has_color_label(line) == \E label \in color_labels : str_in(label, lower(line))

RECURSIVE pick_color_label_line(_, _)
pick_color_label_line(lines, idx) ==
    IF idx > Len(lines) THEN None
    ELSE IF has_color_label(lines[idx]) THEN Some(lines[idx])
    ELSE pick_color_label_line(lines, idx + 1)

\* get_product.py 111-121, from the line at position idx on
RECURSIVE pick_color_from(_, _)
pick_color_from(lines, idx) ==
    IF idx > Len(lines) THEN None
    ELSE LET line == lines[idx]
             tail == IF str_in(<< ":" >>, line) THEN strip(after_colon(line)) ELSE << >>
             nxt == IF idx + 1 <= Len(lines) THEN strip(lines[idx + 1]) ELSE << >>
         IN  IF has_color_label(line) /\ tail # << >> /\ tail # << ":" >>
             THEN Some(tail)
             ELSE IF has_color_label(line) /\ nxt # << >> /\ nxt # << ":" >>
             THEN Some(nxt)
             ELSE pick_color_from(lines, idx + 1)

\* get_product.py 108-122
pick_color_line(lines) == pick_color_from(lines, 1)

\* get_product.py 185-186 and 147-148: the stripped lines that are not empty
card_lines(card) ==
    SelectSeq([ i \in 1..Len(card.text) |-> strip(card.text[i]) ], LAMBDA l : l # << >>)

\* get_product.py 151-155.  The pattern is a raw string with doubled
\* backslashes: after the label it wants a backslash character, then zero or
\* more "s", then the colon.  No text here holds a backslash, so the search
\* finds nothing.
regex_color(lines) == None

\* get_product.py 125-159
extract_color_from_container(card) ==
    IF card.attr_color # None THEN card.attr_color
    ELSE IF regex_color(card_lines(card)) # None THEN regex_color(card_lines(card))
    ELSE pick_color_line(card_lines(card))

\* get_product.py 193-201; the markers with accented letters cannot be
\* written here
unavailable_markers == { << "u", "n", "a", "v", "a", "i", "l", "a", "b", "l", "e" >>, << "o", "u", "t", " ", "o", "f", " ", "s", "t", "o", "c", "k" >>, << "e", "p", "u", "i", "s", "e" >>, << "i", "n", "d", "i", "s", "p", "o", "n", "i", "b", "l", "e" >>,
                         << "c", "u", "r", "r", "e", "n", "t", "l", "y", " ", "u", "n", "a", "v", "a", "i", "l", "a", "b", "l", "e" >> }

\* get_product.py 203-207, the flag
unavailable_of(lines) ==
    \E i \in 1..Len(lines) : \E marker \in unavailable_markers : str_in(marker, lower(lines[i]))

\* get_product.py 203-205 and 209-210
price_of(lines) ==
    IF \E i \in 1..Len(lines) : str_in(<< "EUR" >>, lines[i])
    THEN Some(lines[CHOOSE i \in 1..Len(lines) :
                    /\ str_in(<< "EUR" >>, lines[i])
                    /\ \A k \in 1..(i - 1) : ~ str_in(<< "EUR" >>, lines[k])])
    ELSE pick_price_line(lines)

\* get_product.py 15
BASE_URL == << "http", "s://www.hermes.com" >>

\* get_product.py 178: href.startswith("http")
starts_with_http(href) == Len(href) >= 1 /\ href[1] = "http"

\* get_product.py 178
url_of(href) == IF starts_with_http(href) THEN href ELSE BASE_URL \o href

\* get_product.py 171: get_text(strip=True)
name_of(anchor) == strip(anchor.text)

\* get_product.py 168: the elements whose href holds /product/
find_anchors(document) ==
    SelectSeq(document, LAMBDA a : str_in(<< "/product/" >>, a.href))

in_products_never(parsed_so_far, name, url) == FALSE

\* get_product.py 181: key in products
in_products(parsed_so_far, name, url) ==
    \E i \in 1..Len(parsed_so_far) : parsed_so_far[i].name = name /\ parsed_so_far[i].url = url

\* get_product.py 212-219
product_record(anchor) ==
    [ name |-> name_of(anchor),
      color |-> extract_color_from_container(anchor.card),
      price |-> price_of(card_lines(anchor.card)),
      unavailable |-> unavailable_of(card_lines(anchor.card)),
      url |-> url_of(anchor.href),
      is_bag |-> is_bag_item(name_of(anchor)) ]

\* get_product.py 170-219: one iteration of the for loop over a dict that
\* keeps insertion order
parse_anchor(parsed_so_far, anchor) ==
    IF name_of(anchor) = << >> \/ anchor.href = << >> THEN parsed_so_far
    ELSE IF in_products(parsed_so_far, name_of(anchor), url_of(anchor.href)) THEN parsed_so_far
    ELSE Append(parsed_so_far, product_record(anchor))

t_kelly_bag == << "K", "e", "l", "l", "y", " ", "B", "a", "g" >>
t_kelly_25 == << "K", "e", "l", "l", "y", " ", "2", "5" >>
t_blank == << " " >>
t_color == << "C", "o", "l", "o", "r" >>
t_black == << "B", "l", "a", "c", "k" >>
t_price_eur == << "EUR", "3", ",", "2", "0", "0" >>
t_price_yen == << "YEN", "1", ",", "5", "0", "0" >>
t_unavailable == << "U", "n", "a", "v", "a", "i", "l", "a", "b", "l", "e" >>
t_couleur_noir == << "C", "o", "u", "l", "e", "u", "r", " ", ":", " ", "N", "o", "i", "r" >>
t_color_colon == << "C", "o", "l", "o", "r", ":" >>
t_colon == << ":" >>
t_gold == << " ", "G", "o", "l", "d" >>
t_etoupe == << "E", "t", "o", "u", "p", "e" >>
t_ref_25 == << "R", "e", "f", " ", "2", "5" >>

card_of(attr_color, text) == [ attr_color |-> attr_color, text |-> text ]

\* spec.md scenario 2
card_kelly == card_of(None, << t_kelly_bag, t_color, t_black, t_price_eur, t_unavailable >>)
\* an inline value, a price in yen after a line that holds a digit
card_yen == card_of(None, << t_kelly_25, t_couleur_noir, t_price_yen >>)
\* a label whose inline value is empty, then a lone colon, no price
card_bare == card_of(None, << t_color_colon, t_colon, t_blank, t_color, t_gold >>)
\* an attribute hint, a digit line and a euro line after it
card_hint == card_of(Some(t_etoupe), << t_ref_25, t_color, t_black, t_price_eur >>)

h_rel_kelly == << "/product/", "kelly" >>
h_abs_kelly == << "http", "s://www.hermes.com", "/product/", "kelly" >>
h_rel_scarf == << "/product/", "scarf" >>
h_category == << "/category/", "bags" >>

a_elem(text, href, c) == [ text |-> text, href |-> href, card |-> c ]

Elements ==
    { a_elem(t_kelly_bag, h_rel_kelly, card_kelly),
      a_elem(t_kelly_bag, h_abs_kelly, card_hint),
      a_elem(t_kelly_25, h_rel_kelly, card_yen),
      a_elem(t_gold, h_rel_scarf, card_bare),
      a_elem(t_blank, h_rel_scarf, card_kelly),
      a_elem(t_kelly_bag, h_category, card_kelly) }

MaxElements == 3

DocumentsOfElements ==
    UNION { [ 1..n -> Elements ] : n \in 0..MaxElements }

ExtractStart(document) ==
    /\ soup_document = document
    /\ anchor_pos = 1
    /\ parsed = << >>
    /\ extracted = None

\* get_product.py 170-219: one iteration
ParseAnchor ==
    /\ entry = "extract_products_from_soup"
    /\ extracted = None
    /\ anchor_pos <= Len(find_anchors(soup_document))
    /\ parsed' = parse_anchor(parsed, find_anchors(soup_document)[anchor_pos])
    /\ anchor_pos' = anchor_pos + 1
    /\ UNCHANGED << soup_document, extracted >>
    /\ UNCHANGED << entry, call_vars, loop_vars, soup_vars, hook_vars >>

\* get_product.py 227-228
ReturnProducts ==
    /\ entry = "extract_products_from_soup"
    /\ extracted = None
    /\ anchor_pos > Len(find_anchors(soup_document))
    /\ extracted' = Some(parsed)
    /\ UNCHANGED << soup_document, anchor_pos, parsed >>
    /\ UNCHANGED << entry, call_vars, loop_vars, soup_vars, hook_vars >>

-----------------------------------------------------------------------------
(* fetch_category_soup, get_product.py 42-72                               *)

Urls == { "a", "b", "c" }

\* What one iteration of the for loop can meet:
\*   "get_raises"   session.get raises (line 53)
\*   "non_200"      a response whose status is not 200 (lines 56-58)
\*   "write_raises" a 200 response, and the write of the debug file (line 59)
\*                  raises
\*   "ok"           a 200 response that is written and parsed (lines 59-61)
Responses == { "get_raises", "non_200", "write_raises", "ok" }

CandidateLists == { << >>, << "a" >>, << "a", "b" >>, << "b", "a" >>, << "a", "b", "c" >> }

no_fetch == [ u \in Urls |-> "non_200" ]

\* get_product.py 46-47: pause_minutes_on_fail, in whole minutes, and sleep_on_fail
FailArgs == [ pause_minutes_on_fail : { 0, 5 }, sleep_on_fail : BOOLEAN ]

no_fail_args == [ pause_minutes_on_fail |-> 0, sleep_on_fail |-> FALSE ]

pause_slept_always(pause_minutes_on_fail, sleep_on_fail) ==
    IF 60 * pause_minutes_on_fail > 0 THEN 60 * pause_minutes_on_fail ELSE 0

\* get_product.py 65-71: the seconds fetch_category_soup sleeps once every
\* candidate has failed
pause_slept(pause_minutes_on_fail, sleep_on_fail) ==
    IF sleep_on_fail /\ 60 * pause_minutes_on_fail > 0 THEN 60 * pause_minutes_on_fail ELSE 0

SoupStart(urls, w, args) ==
    /\ category_urls = urls
    /\ web = w
    /\ fail_args = args
    /\ slept = 0
    /\ url_pos = 1
    /\ requested = << >>
    /\ soup = None

\* get_product.py 51-63: one iteration of the for loop.  The soup of a
\* document is named by the URL it came from.
TryCandidate ==
    /\ entry = "fetch_category_soup"
    /\ soup = None
    /\ url_pos <= Len(category_urls)
    /\ \E url \in { category_urls[url_pos] } :
        /\ requested' = Append(requested, url)
        /\ IF web[url] = "ok"
           THEN soup' = Some(Some(url)) /\ UNCHANGED url_pos
           ELSE url_pos' = url_pos + 1 /\ UNCHANGED soup
    /\ UNCHANGED << category_urls, web, fail_args, slept >>
    /\ UNCHANGED << entry, call_vars, loop_vars, extract_vars, hook_vars >>

\* get_product.py 65-72: the loop ran out of candidates
AllFailed ==
    /\ entry = "fetch_category_soup"
    /\ soup = None
    /\ url_pos > Len(category_urls)
    /\ slept' = slept + pause_slept(fail_args.pause_minutes_on_fail, fail_args.sleep_on_fail)
    /\ soup' = Some(None)
    /\ UNCHANGED << category_urls, web, url_pos, requested, fail_args >>
    /\ UNCHANGED << entry, call_vars, loop_vars, extract_vars, hook_vars >>

-----------------------------------------------------------------------------
(* run_loop: the state after main.py 314-463 and the steps of the loop     *)

no_products == [ v \in Regions |-> << >> ]
not_fetched == [ v \in Regions |-> "none" ]
no_round_seen == [ u \in UserIds |-> { } ]

LoopStart(cfg, st) ==
    /\ config = cfg
    /\ store = st
    /\ pc = "load"
    /\ clock = 0
    /\ round = 1
    /\ now = 0
    /\ seen = { }
    /\ next_allowed = [ v \in Secondary |-> 0 ]
    /\ line_user_prefs = load_line_user_prefs(st)
    /\ line_round_seen = no_round_seen
    /\ products = no_products
    /\ combined_products = << >>
    /\ filtered = << >>
    /\ to_notify = << >>
    /\ fetched = not_fetched
    /\ last_fail = [ v \in Secondary |-> None ]
    /\ main_failed = FALSE
    /\ sent = << >>
    /\ bcast_hist = { }
    /\ bcast_over = None
    /\ delivered = None
    /\ line_over = None

\* C20 mutant: the preferences read at startup (main.py 351) are kept
LoadPrefs_cached ==
    /\ entry = "run_loop"
    /\ pc = "load"
    /\ line_round_seen' = no_round_seen
    /\ pc' = "fetch_main"
    /\ UNCHANGED << config, store, clock, round, now, seen, next_allowed, products,
                    combined_products, filtered, to_notify, fetched, last_fail,
                    main_failed, sent, bcast_hist, bcast_over, line_over, delivered,
                    line_user_prefs >>
    /\ UNCHANGED << entry, call_vars, soup_vars, extract_vars, hook_vars >>

\* main.py 466-470
LoadPrefs ==
    /\ entry = "run_loop"
    /\ pc = "load"
    /\ line_user_prefs' = load_line_user_prefs(store)
    /\ line_round_seen' = no_round_seen
    /\ pc' = "fetch_main"
    /\ UNCHANGED << config, store, clock, round, now, seen, next_allowed, products,
                    combined_products, filtered, to_notify, fetched, last_fail,
                    main_failed, sent, bcast_hist, bcast_over, line_over, delivered >>
    /\ UNCHANGED << entry, call_vars, soup_vars, extract_vars, hook_vars >>


\* main.py 403, 419, 435, 451: sleep_on_fail in the scraper arguments of every variant
kwargs_sleep_on_fail == FALSE

\* main.py 402: pause_minutes_on_fail of the primary variant
main_pause_minutes == 5

\* the seconds get_all_products spends asleep in fetch_category_soup
\* (get_product.py 270-278): none when a document came back
client_sleep(o, pause_minutes_on_fail) ==
    IF o.ok THEN 0 ELSE pause_slept(pause_minutes_on_fail, kwargs_sleep_on_fail)

\* how the observation names a fetch outcome
outcome_name(o) == IF o.ok THEN "ok" ELSE "unavailable"
failed_at(o, t) == IF o.ok THEN None ELSE Some(t)

\* C5 mutant: the primary variant is skipped once a fetch of it has failed
FetchMain_gated ==
    /\ entry = "run_loop"
    /\ pc = "fetch_main"
    /\ IF main_failed
       THEN /\ products' = no_products
            /\ fetched' = [ fetched EXCEPT !["EU_MAIN"] = "cooldown" ]
            /\ now' = clock
            /\ pc' = "fetch_fr"
       ELSE \/ \E o \in FetchOutcomes("EU_MAIN") :
                /\ products' = [ no_products EXCEPT !["EU_MAIN"] = tag(o.list, "EU_MAIN") ]
                /\ fetched' = [ fetched EXCEPT !["EU_MAIN"] = outcome_name(o) ]
                /\ now' = clock
                /\ pc' = "fetch_fr"
            \/ /\ fetched' = [ fetched EXCEPT !["EU_MAIN"] = "ok" ]
                /\ pc' = "raised_write_text"
                /\ UNCHANGED << products, now >>
    /\ UNCHANGED << config, store, clock, round, seen, next_allowed, line_user_prefs,
                    line_round_seen, combined_products, filtered, to_notify,
                    last_fail, main_failed, sent, bcast_hist, bcast_over, line_over, delivered >>
    /\ UNCHANGED << entry, call_vars, soup_vars, extract_vars, hook_vars >>

\* main.py 471-477: the primary variant, then the round's timestamp.
\* get_all_products (get_product.py 231-288) returns the extracted records,
\* returns [] when every candidate URL failed, or raises.
FetchMain ==
    /\ entry = "run_loop"
    /\ pc = "fetch_main"
    /\ \/ \E o \in FetchOutcomes("EU_MAIN") :
              /\ products' = [ no_products EXCEPT !["EU_MAIN"] = tag(o.list, "EU_MAIN") ]
              /\ fetched' = [ fetched EXCEPT !["EU_MAIN"] = outcome_name(o) ]
              /\ clock' = clock + client_sleep(o, main_pause_minutes)
              /\ now' = clock'
              /\ pc' = "fetch_fr"
       \* get_product.py 281-285: the document was fetched and save_path.write_text
       \* raises; nothing between it and the caller of run_loop catches
       \/ /\ fetched' = [ fetched EXCEPT !["EU_MAIN"] = "ok" ]
          /\ pc' = "raised_write_text"
          /\ UNCHANGED << products, now, clock >>
    /\ UNCHANGED << config, store, round, seen, next_allowed, line_user_prefs,
                    line_round_seen, combined_products, filtered, to_notify,
                    last_fail, main_failed, sent, bcast_hist, bcast_over, line_over, delivered >>
    /\ UNCHANGED << entry, call_vars, soup_vars, extract_vars, hook_vars >>

\* main.py 478-490 (FR), 492-504 (TW), 506-518 (JP)
FetchSecondary(v, here, next) ==
    /\ entry = "run_loop"
    /\ pc = here
    /\ \/ /\ ~ config.scraper[v].configured
          /\ pc' = next
          /\ fetched' = [ fetched EXCEPT ![v] = "unconfigured" ]
          /\ UNCHANGED << products, next_allowed, last_fail, clock >>
       \/ /\ config.scraper[v].configured
          /\ fetch_allowed(now, next_allowed[v])
          /\ \/ \E o \in FetchOutcomes(v) :
                    /\ pc' = next
                    /\ products' = [ products EXCEPT ![v] = tag(o.list, v) ]
                    /\ next_allowed' = [ next_allowed EXCEPT ![v] =
                           next_allowed_after(o.list, now, next_allowed[v],
                                              config.scraper[v].pause_minutes_on_fail) ]
                    /\ fetched' = [ fetched EXCEPT ![v] = outcome_name(o) ]
                    /\ last_fail' = [ last_fail EXCEPT ![v] = failed_at(o, now) ]
                    /\ clock' = clock + client_sleep(o, config.scraper[v].pause_minutes_on_fail)
             \* get_product.py 281-285: save_path.write_text raises
             \/ /\ pc' = "raised_write_text"
                /\ fetched' = [ fetched EXCEPT ![v] = "ok" ]
                /\ UNCHANGED << products, next_allowed, last_fail, clock >>
       \/ /\ config.scraper[v].configured
          /\ ~ fetch_allowed(now, next_allowed[v])
          /\ pc' = next
          /\ next_allowed' = [ next_allowed EXCEPT ![v] =
                 next_allowed_skipped(now, next_allowed[v],
                                      config.scraper[v].pause_minutes_on_fail) ]
          /\ fetched' = [ fetched EXCEPT ![v] = "cooldown" ]
          /\ UNCHANGED << products, last_fail, clock >>
    /\ UNCHANGED << config, store, round, now, seen, line_user_prefs,
                    line_round_seen, combined_products, filtered, to_notify,
                    main_failed, sent, bcast_hist, bcast_over, line_over, delivered >>
    /\ UNCHANGED << entry, call_vars, soup_vars, extract_vars, hook_vars >>

FetchFR == FetchSecondary("FR", "fetch_fr", "fetch_tw")
FetchTW == FetchSecondary("TW", "fetch_tw", "fetch_jp")
FetchJP == FetchSecondary("JP", "fetch_jp", "broadcast")

\* C30 mutant: a URL is recorded as seen only when Telegram accepted the posts
Broadcast_seen_on_delivery ==
    /\ entry = "run_loop"
    /\ pc = "broadcast"
    /\ \E combined \in { combine(products) } :
       \E filt \in { filter_products(combined,
                                     config.filter.include_keywords,
                                     config.filter.exclude_keywords,
                                     config.filter.require_available,
                                     config.filter.only_bags,
                                     None) } :
       \E tn \in { dedup_round(to_notify_raw(filt, seen, config.send_every_poll), { }) } :
       \E items \in { notified(tn, config.filter.require_available) } :
           /\ combined_products' = combined
           /\ filtered' = filt
           /\ to_notify' = tn
           /\ delivered' \in IF broadcast_sends(items, config, config.filter.require_available) = << >>
                             THEN { None }
                             ELSE { Some(TRUE), Some(FALSE) }
           /\ seen' = IF delivered' = Some(TRUE)
                      THEN seen_after(seen, items, config.send_every_poll)
                      ELSE seen
           /\ sent' = sent \o broadcast_sends(items, config,
                                              config.filter.require_available)
           /\ bcast_over' = Some(combined)
    /\ pc' = "line"
    /\ UNCHANGED << config, store, clock, round, now, next_allowed, line_user_prefs,
                    line_round_seen, products, fetched, last_fail, main_failed,
                    bcast_hist, line_over >>
    /\ UNCHANGED << entry, call_vars, soup_vars, extract_vars, hook_vars >>

\* main.py 520-559: merge, broadcast filter, dedup and the broadcast sends
Broadcast ==
    /\ entry = "run_loop"
    /\ pc = "broadcast"
    /\ \E combined \in { combine(products) } :
       \E filt \in { filter_products(combined,
                                     config.filter.include_keywords,
                                     config.filter.exclude_keywords,
                                     config.filter.require_available,
                                     config.filter.only_bags,
                                     None) } :
       \E tn \in { dedup_round(to_notify_raw(filt, seen, config.send_every_poll), { }) } :
       \E items \in { notified(tn, config.filter.require_available) } :
           /\ combined_products' = combined
           /\ filtered' = filt
           /\ to_notify' = tn
           /\ seen' = seen_after(seen, items, config.send_every_poll)
           /\ sent' = sent \o broadcast_sends(items, config,
                                              config.filter.require_available)
           /\ bcast_over' = Some(combined)
           \* main.py 185-202: send_telegram returns whether the post was
           \* accepted, and line 559 drops what it returns
           /\ delivered' \in IF broadcast_sends(items, config, config.filter.require_available) = << >>
                             THEN { None }
                             ELSE { Some(TRUE), Some(FALSE) }
    /\ pc' = "line"
    /\ UNCHANGED << config, store, clock, round, now, next_allowed, line_user_prefs,
                    line_round_seen, products, fetched, last_fail, main_failed,
                    bcast_hist, line_over >>
    /\ UNCHANGED << entry, call_vars, soup_vars, extract_vars, hook_vars >>

\* main.py 561-600: the per-recipient sends.  (A value that is used more than
\* once is bound by \E over a one-element set, which evaluates it once.)
PerRecipient ==
    /\ entry = "run_loop"
    /\ pc = "line"
    /\ IF line_enabled(config, line_user_prefs) /\ combined_products # << >>
       THEN \E items \in { line_items(combined_products, filtered) } :
            \E done \in { user_loop(line_user_prefs, items, line_round_seen, clock) } :
                /\ line_over' = Some(items)
                /\ \/ /\ line_round_seen' = done.round_seen
                      /\ sent' = sent \o done.sends
                      /\ pc' = "heartbeat"
                   \* main.py 224: send_line catches ApiException only; any
                   \* other exception of the k-th push_message leaves run_loop
                   \/ \E k \in 1..Len(done.sends) :
                      /\ line_round_seen' =
                             seen_by(SubSeq(done.sends, 1, k), line_round_seen)
                      /\ sent' = sent \o SubSeq(done.sends, 1, k)
                      /\ pc' = "raised_send_line"
       ELSE /\ pc' = "heartbeat"
            /\ UNCHANGED << line_round_seen, sent, line_over >>
    /\ UNCHANGED << config, store, clock, round, now, seen, next_allowed,
                    line_user_prefs, products, combined_products, filtered,
                    to_notify, fetched, last_fail, main_failed, bcast_hist,
                    bcast_over, delivered >>
    /\ UNCHANGED << entry, call_vars, soup_vars, extract_vars, hook_vars >>

\* main.py 602-616
Heartbeat ==
    /\ entry = "run_loop"
    /\ pc = "heartbeat"
    /\ IF config.telegram_enabled /\ to_notify = << >> /\ heartbeat_target(config) # None
       THEN sent' = Append(sent, send("telegram", heartbeat_target(config)[1],
                                      "heartbeat", heartbeat_item(products), FALSE))
       ELSE UNCHANGED sent
    /\ pc' = "sleep"
    /\ UNCHANGED << config, store, clock, round, now, seen, next_allowed,
                    line_user_prefs, line_round_seen, products, combined_products,
                    filtered, to_notify, fetched, last_fail, main_failed,
                    bcast_hist, bcast_over, line_over, delivered >>
    /\ UNCHANGED << entry, call_vars, soup_vars, extract_vars, hook_vars >>

\* the <<url, chat_id>> pairs of the round's broadcast notifications
broadcast_pairs(sends) ==
    { << sends[i].item.url, sends[i].to >> :
        i \in { j \in 1..Len(sends) :
                  sends[j].chan = "telegram" /\ sends[j].kind = "product" } }

\* main.py 618-620, then back to the top of the loop.  The locals of the
\* round are dead from here on (each is assigned again before it is read),
\* so the model clears them together with the observation of the round.
Sleep ==
    /\ entry = "run_loop"
    /\ pc = "sleep"
    /\ round < MaxRounds
    /\ \E sleep_seconds \in { config.min_seconds, config.max_seconds } :
        clock' = clock + sleep_seconds
    /\ round' = round + 1
    /\ pc' = "load"
    /\ products' = no_products
    /\ combined_products' = << >>
    /\ filtered' = << >>
    /\ to_notify' = << >>
    /\ fetched' = not_fetched
    /\ sent' = << >>
    /\ bcast_hist' = bcast_hist \cup broadcast_pairs(sent)
    /\ bcast_over' = None
    /\ delivered' = None
    /\ line_over' = None
    /\ main_failed' = (main_failed \/ fetched["EU_MAIN"] = "unavailable")
    /\ UNCHANGED << config, store, now, seen, next_allowed, line_user_prefs,
                    line_round_seen, last_fail >>
    /\ UNCHANGED << entry, call_vars, soup_vars, extract_vars, hook_vars >>

\* The recipient-preference file is read from disk in every round (main.py
\* 465-466) and is not owned by run_loop: an operator's edit replaces its
\* content between any two steps of run_loop.
StoreEdit ==
    /\ entry = "run_loop"
    /\ \E e \in StoreEdits : store = e[1] /\ store' = e[2]
    /\ UNCHANGED << config, pc, clock, round, now, seen, next_allowed,
                    line_user_prefs, line_round_seen, products, combined_products,
                    filtered, to_notify, fetched, last_fail, main_failed, sent,
                    bcast_hist, bcast_over, line_over, delivered >>
    /\ UNCHANGED << entry, call_vars, soup_vars, extract_vars, hook_vars >>

\* webhook_users.py 139: the webhook process opens the file for writing,
\* between any two steps of run_loop
WebhookOpen ==
    /\ entry = "run_loop"
    /\ \E e \in WebhookWrites : store = e[1] /\ store' = being_written(e[2])
    /\ UNCHANGED << config, pc, clock, round, now, seen, next_allowed,
                    line_user_prefs, line_round_seen, products, combined_products,
                    filtered, to_notify, fetched, last_fail, main_failed, sent,
                    bcast_hist, bcast_over, line_over, delivered >>
    /\ UNCHANGED << entry, call_vars, soup_vars, extract_vars, hook_vars >>

\* webhook_users.py 140: json.dump has written the list and the file is closed
WebhookDump ==
    /\ entry = "run_loop"
    /\ store.kind = "partial"
    /\ store' = [ kind |-> "list", users |-> store.users ]
    /\ UNCHANGED << config, pc, clock, round, now, seen, next_allowed,
                    line_user_prefs, line_round_seen, products, combined_products,
                    filtered, to_notify, fetched, last_fail, main_failed, sent,
                    bcast_hist, bcast_over, line_over, delivered >>
    /\ UNCHANGED << entry, call_vars, soup_vars, extract_vars, hook_vars >>

-----------------------------------------------------------------------------
(* The webhook process, webhook_users.py 12-29 and 109-156                 *)

\* a record of line_users.json as json.load returns it: every key is << >>
\* when the record lacks it and <<value>> when it has it
user_entry(user_id, include, exclude, regions, ra, ob, until, name) ==
    [ user_id |-> user_id,
      include_keywords |-> include, exclude_keywords |-> exclude,
      regions |-> regions, require_available |-> ra, only_bags |-> ob,
      notify_until |-> until, NAME |-> name ]

\* the time the webhook handles its events at, and midnight of the day before
hook_now  == 0
yesterday == hook_now - 1

\* webhook_users.py 12-20
DEFAULT_USER_FIELDS ==
    [ include_keywords |-> << >>, exclude_keywords |-> << >>, regions |-> << >>,
      require_available |-> TRUE, only_bags |-> TRUE, notify_until |-> "",
      NAME |-> "" ]

\* webhook_users.py 23-29
default_user_value(key) ==
    IF key = "notify_until" THEN until_time(yesterday)[1]
    ELSE DEFAULT_USER_FIELDS[key]

\* Python's truth value of an optional string
truthy(opt) == opt # None /\ opt[1] # ""

\* webhook_users.py 146-156: the record after the call and what the call returns
ensure_all_tags(e, display_name) ==
    LET filled == [ key \in DOMAIN e |->
                      IF key \in DOMAIN DEFAULT_USER_FIELDS /\ e[key] = None
                      THEN Some(default_user_value(key))
                      ELSE e[key] ]
        named  == IF truthy(display_name) /\ ~ truthy(filled.NAME)
                  THEN [ filled EXCEPT !.NAME = display_name ]
                  ELSE filled
    IN  [ entry |-> named, changed |-> named # e ]

\* webhook_users.py 126: {"user_id": user_id}
new_entry(user_id) == user_entry(Some(user_id), None, None, None, None, None, None, None)

\* webhook_users.py 123-124: the records the loop compares with user_id
matching(users, user_id) == { i \in 1..Len(users) : users[i].user_id = Some(user_id) }

\* webhook_users.py 114-120: what the handler takes the file to hold
users_read(file) == IF file.kind = "list" THEN file.users ELSE << >>

\* webhook_users.py 122-135: the locals after the loop and the append
updated(users, user_id, display_name) ==
    IF matching(users, user_id) # { }
    THEN \* 123-128: the first matching record only (break)
         LET i == CHOOSE j \in matching(users, user_id) :
                      \A k \in matching(users, user_id) : j <= k
             r == ensure_all_tags(users[i], display_name)
         IN  [ users |-> [ users EXCEPT ![i] = r.entry ], found |-> TRUE,
               changed |-> r.changed ]
    ELSE [ users |-> Append(users, ensure_all_tags(new_entry(user_id), display_name).entry),
           found |-> FALSE, changed |-> TRUE ]

\* the files the webhook process finds
hook_missing    == [ kind |-> "missing", users |-> << >> ]
hook_unparsable == [ kind |-> "unparsable", users |-> << >> ]
hook_mapping    == [ kind |-> "mapping", users |-> << >> ]
hook_list(users) == [ kind |-> "list", users |-> users ]

\* records: complete, written by hand with the user id only, with an empty
\* NAME, without a user id
full_entry(user_id, at, name) ==
    user_entry(Some(user_id), Some(<< k_scarf >>), Some(<< >>), Some(<< r_fr >>),
               Some(FALSE), Some(TRUE), until_time(at), Some(name))
bare_entry(user_id) == new_entry(user_id)
anonymous_entry ==
    user_entry(None, None, None, None, None, None, until_time(1000), Some("Zoe"))

HookFiles ==
    { hook_missing, hook_unparsable, hook_mapping,
      hook_list(<< >>),
      hook_list(<< full_entry("ua", 1000, "Bob") >>),
      hook_list(<< bare_entry("ua"), full_entry("ub", 1000, "") >>),
      hook_list(<< anonymous_entry, full_entry("ub", 1000, "Bea") >>),
      \* the record of "ua" twice, copied by hand
      hook_list(<< full_entry("ua", 1000, ""), full_entry("ub", 1000, "Bea"),
                   bare_entry("ua") >>) }

\* src.get("userId") of an event and what get_display_name returns for it
\* (webhook_users.py 32-45 and 84-85)
HookEvents ==
    { [ user_id |-> None, display_name |-> None ] }
    \cup { [ user_id |-> Some(u), display_name |-> d ] :
             u \in { "ua", "ub" }, d \in { None, Some("Ann") } }

idle_frame ==
    [ pc |-> "idle", user_id |-> None, display_name |-> None, users |-> << >>,
      found |-> FALSE, changed |-> FALSE ]

HookStart(file) ==
    /\ users_json = file
    /\ handler = idle_frame

\* webhook_users.py 109-137: the handler is called for an event, reads the
\* file and brings the list in memory up to date
ReadUsers ==
    /\ entry = "do_POST"
    /\ handler.pc = "idle"
    /\ \E ev \in HookEvents :
         IF ~ truthy(ev.user_id)
         THEN \* 110-111
              handler' = [ idle_frame EXCEPT !.pc = "returned" ]
         ELSE IF users_json.kind = "unparsable"
         THEN \* json.load raises, 143-144
              handler' = [ idle_frame EXCEPT !.pc = "returned",
                                             !.user_id = ev.user_id,
                                             !.display_name = ev.display_name ]
         ELSE \E r \in { updated(users_read(users_json), ev.user_id[1], ev.display_name) } :
              handler' = [ pc |-> IF r.changed THEN "changed" ELSE "returned",
                           user_id |-> ev.user_id, display_name |-> ev.display_name,
                           users |-> r.users, found |-> r.found, changed |-> r.changed ]
    /\ UNCHANGED users_json
    /\ UNCHANGED << entry, call_vars, loop_vars, soup_vars, extract_vars >>

\* webhook_users.py 139: open("w") empties the file
OpenUsers ==
    /\ entry = "do_POST"
    /\ handler.pc = "changed"
    /\ users_json' = being_written(hook_list(handler.users))
    /\ handler' = [ handler EXCEPT !.pc = "opened" ]
    /\ UNCHANGED << entry, call_vars, loop_vars, soup_vars, extract_vars >>

\* webhook_users.py 140: json.dump writes the list in memory
DumpUsers ==
    /\ entry = "do_POST"
    /\ handler.pc = "opened"
    /\ users_json' = hook_list(handler.users)
    /\ handler' = [ handler EXCEPT !.pc = "returned" ]
    /\ UNCHANGED << entry, call_vars, loop_vars, soup_vars, extract_vars >>

\* webhook_users.py 81-99: do_POST goes on to the next event
NextEvent ==
    /\ entry = "do_POST"
    /\ handler.pc = "returned"
    /\ handler' = idle_frame
    /\ UNCHANGED users_json
    /\ UNCHANGED << entry, call_vars, loop_vars, soup_vars, extract_vars >>

\* the record an operator adds to the file by hand
operator_entry == full_entry("uc", 1000, "Cy")

\* The file is edited by hand as well (main.py 465-466 reads it in every
\* round so that edits take effect): an operator saves the list with one
\* more record, between any two steps of the webhook process.
OperatorAdds ==
    /\ entry = "do_POST"
    /\ users_json.kind = "list"
    /\ matching(users_json.users, "uc") = { }
    /\ users_json' = hook_list(Append(users_json.users, operator_entry))
    /\ UNCHANGED handler
    /\ UNCHANGED << entry, call_vars, loop_vars, soup_vars, extract_vars >>

-----------------------------------------------------------------------------

Init ==
    \/ /\ entry = "run_loop"
       /\ \E sc \in Scenarios : LoopStart(sc.config, sc.store)
       /\ f_args = no_call
       /\ f_result = None
       /\ SoupStart(<< >>, no_fetch, no_fail_args)
       /\ ExtractStart(<< >>)
       /\ HookStart(hook_missing)
    \/ /\ entry = "filter_products"
       /\ f_args \in CallArgs
       /\ f_result = None
       /\ LoopStart(cfg_of(default_rule, FALSE, FALSE, FALSE, FROnly), no_users)
       /\ SoupStart(<< >>, no_fetch, no_fail_args)
       /\ ExtractStart(<< >>)
       /\ HookStart(hook_missing)
    \/ /\ entry = "fetch_category_soup"
       /\ \E urls \in CandidateLists, w \in [ Urls -> Responses ], args \in FailArgs :
              SoupStart(urls, w, args)
       /\ f_args = no_call
       /\ f_result = None
       /\ LoopStart(cfg_of(default_rule, FALSE, FALSE, FALSE, FROnly), no_users)
       /\ ExtractStart(<< >>)
       /\ HookStart(hook_missing)
    \/ /\ entry = "extract_products_from_soup"
       /\ \E document \in DocumentsOfElements : ExtractStart(document)
       /\ f_args = no_call
       /\ f_result = None
       /\ SoupStart(<< >>, no_fetch, no_fail_args)
       /\ LoopStart(cfg_of(default_rule, FALSE, FALSE, FALSE, FROnly), no_users)
       /\ HookStart(hook_missing)
    \/ /\ entry = "do_POST"
       /\ \E file \in HookFiles : HookStart(file)
       /\ f_args = no_call
       /\ f_result = None
       /\ SoupStart(<< >>, no_fetch, no_fail_args)
       /\ ExtractStart(<< >>)
       /\ LoopStart(cfg_of(default_rule, FALSE, FALSE, FALSE, FROnly), no_users)

Next ==
    \/ CallFilter
    \/ LoadPrefs
    \/ FetchMain
    \/ FetchFR
    \/ FetchTW
    \/ FetchJP
    \/ Broadcast
    \/ PerRecipient
    \/ Heartbeat
    \/ Sleep
    \/ StoreEdit
    \/ WebhookOpen
    \/ WebhookDump
    \/ ReadUsers
    \/ OpenUsers
    \/ DumpUsers
    \/ NextEvent
    \/ OperatorAdds
    \/ TryCandidate
    \/ AllFailed
    \/ ParseAnchor
    \/ ReturnProducts

Spec == Init /\ [][Next]_vars

-----------------------------------------------------------------------------
(* Properties                                                              *)

is_broadcast(m) == m.chan = "telegram" /\ m.kind = "product"
is_line(m)      == m.chan = "line" /\ m.kind = "product"
is_product(m)   == m.kind = "product"

\* this step attempts the fetch of variant v / skips it for cooldown
attempted(v) == fetched[v] = "none" /\ fetched'[v] \in { "ok", "unavailable" }
skipped(v)   == fetched[v] = "none" /\ fetched'[v] = "cooldown"

\* the configured cooldown of variant v, seconds
cooldown_seconds(v) == 60 * config.scraper[v].pause_minutes_on_fail

\* some non-empty keyword of list kws is in name, case-insensitively
keyword_in(kws, name) ==
    \E i \in 1..Len(kws) : kws[i] # << >> /\ str_in(lower(kws[i]), lower(name))

\* some keyword of list kws, the empty one included, is in name
any_keyword_in(kws, name) ==
    \E i \in 1..Len(kws) : str_in(lower(kws[i]), lower(name))

\* C1: with send_every_poll off, no URL is broadcast to the same chat id
\* twice in a round, nor in a round after one in which it was broadcast to it.
C1_BroadcastOnce ==
    (entry = "run_loop" /\ ~ config.send_every_poll) =>
        /\ \A i, j \in 1..Len(sent) :
              (i < j /\ is_broadcast(sent[i]) /\ is_broadcast(sent[j])
                     /\ sent[i].to = sent[j].to)
              => sent[i].item.url # sent[j].item.url
        /\ \A i \in 1..Len(sent) :
              is_broadcast(sent[i])
              => << sent[i].item.url, sent[i].to >> \notin bcast_hist

\* a later round lists, and passes through the broadcast filter, a URL that
\* was broadcast before, while another URL is broadcast
C1_Witness ==
    /\ entry = "run_loop"
    /\ ~ config.send_every_poll
    /\ pc = "line"
    /\ \E i \in 1..Len(filtered) : << filtered[i].url, "c1" >> \in bcast_hist
    /\ \E i \in 1..Len(sent) : is_broadcast(sent[i])

\* C2: in either mode, a round sends at most one broadcast notification per
\* URL to a chat id and at most one per-recipient notification per URL to a
\* recipient, also when the merged list holds the URL more than once.
C2_OncePerRound ==
    entry = "run_loop" =>
        \A i, j \in 1..Len(sent) :
            (i < j /\ is_product(sent[i]) /\ is_product(sent[j])
                   /\ sent[i].chan = sent[j].chan /\ sent[i].to = sent[j].to)
            => sent[i].item.url # sent[j].item.url

\* notify-every-poll mode, the same URL from two variants passes the
\* broadcast filter and a recipient's filter, and both channels sent it
C2_Witness ==
    /\ entry = "run_loop"
    /\ config.send_every_poll
    /\ pc = "heartbeat"
    /\ \E i, j \in 1..Len(filtered) :
          /\ i < j
          /\ filtered[i].url = filtered[j].url
          /\ filtered[i].region # filtered[j].region
          /\ \E k \in 1..Len(sent) :
                is_broadcast(sent[k]) /\ sent[k].item.url = filtered[i].url
          /\ \E k \in 1..Len(sent) :
                is_line(sent[k]) /\ sent[k].item.url = filtered[i].url

\* C3: a secondary variant is fetched only when now >= next_allowed; when its
\* latest fetch failed in the round of timestamp t, it is not fetched in a
\* round of timestamp below t + cooldown and is fetched (not skipped) in a
\* round of timestamp at or above it.
C3_CooldownTiming ==
    [][ entry = "run_loop" =>
          \A v \in Secondary :
              /\ attempted(v) => now >= next_allowed[v]
              /\ (attempted(v) /\ last_fail[v] # None)
                    => now >= last_fail[v][1] + cooldown_seconds(v)
              /\ (skipped(v) /\ last_fail[v] # None)
                    => now < last_fail[v][1] + cooldown_seconds(v) ]_vars

\* JP failed in the round of timestamp 0, was skipped, and is fetched again in
\* a round whose timestamp has reached its cooldown of 120 s
C3_Witness ==
    /\ entry = "run_loop"
    /\ config.scraper["JP"].configured
    /\ fetched["JP"] = "ok"
    /\ next_allowed["JP"] = 120
    /\ now >= 120

\* C4: after a successful fetch of a secondary variant the variant is not in
\* cooldown, and after an Unavailable one its next_allowed is the round's
\* timestamp plus its configured cooldown.
C4_CooldownOnlyOnUnavailable ==
    entry = "run_loop" =>
        \A v \in Secondary :
            /\ fetched[v] = "ok" => now >= next_allowed[v]
            /\ fetched[v] = "unavailable"
                  => next_allowed[v] = now + cooldown_seconds(v)

\* C5: once a round is past its first step, the primary variant has been
\* fetched in it.
C5_PrimaryEveryRound ==
    (entry = "run_loop" /\ pc \notin { "load", "fetch_main" })
        => fetched["EU_MAIN"] \in { "ok", "unavailable" }

\* the primary variant failed in an earlier round and is fetched in this one,
\* in which FR is in cooldown
C5_Witness ==
    /\ entry = "run_loop"
    /\ main_failed
    /\ fetched["EU_MAIN"] = "ok"
    /\ fetched["FR"] = "cooldown"

\* C6: a step that skips a variant for cooldown leaves its next_allowed as it
\* was and gives it no products; a step that fetches or skips one variant
\* leaves next_allowed of every other variant as it was; the merged list of
\* the round holds no product of a skipped variant.
C6_SkipLeavesCooldown ==
    /\ [][ entry = "run_loop" =>
             \A v \in Regions :
                 /\ (v \in Secondary /\ skipped(v))
                       => /\ next_allowed'[v] = next_allowed[v]
                          /\ products'[v] = << >>
                 /\ (fetched[v] = "none" /\ fetched'[v] # "none")
                       => \A w \in Secondary \ { v } :
                              next_allowed'[w] = next_allowed[w] ]_vars
    /\ [](entry = "run_loop" =>
             \A v \in Secondary :
                 (fetched[v] = "cooldown" /\ bcast_over # None)
                 => \A i \in 1..Len(combined_products) :
                        combined_products[i].region # region_tag(v))

\* FR is skipped for cooldown in a round in which JP fails and products of
\* the other variants are merged
C6_Witness ==
    /\ entry = "run_loop"
    /\ pc = "line"
    /\ fetched["FR"] = "cooldown"
    /\ fetched["JP"] = "unavailable"
    /\ combined_products # << >>

\* C7: when the first filter evaluation or send of a round happens, the fetch
\* of every variant has been decided (fetched, skipped or not configured);
\* the broadcast filter runs over the merge of the round's fetched lists and
\* the per-recipient loop over that same list.
C7_FetchBeforeDispatch ==
    entry = "run_loop" =>
        /\ (sent # << >> \/ bcast_over # None \/ line_over # None)
              => \A v \in Regions : fetched[v] # "none"
        /\ bcast_over # None => bcast_over[1] = combine(products)
        /\ line_over # None => line_over = bcast_over

\* a round with products of two variants, fewer of which pass the broadcast
\* filter, and with sends on both paths
C7_Witness ==
    /\ entry = "run_loop"
    /\ pc = "heartbeat"
    /\ line_over # None
    /\ Len(filtered) < Len(combined_products)
    /\ \E i, j \in 1..Len(combined_products) :
          combined_products[i].region # combined_products[j].region
    /\ \E k \in 1..Len(sent) : is_broadcast(sent[k])
    /\ \E k \in 1..Len(sent) : is_line(sent[k])

\* C8 as stated: a product whose name contains any configured exclude
\* keyword, the empty keyword included, is rejected.
C8_ExcludeAnyKeyword ==
    (entry = "filter_products" /\ f_result # None
        /\ any_keyword_in(f_args.exclude_keywords, f_args.product.name))
    => f_result[1] = << >>

\* C8: a product whose name contains a non-empty exclude keyword,
\* case-insensitively, is rejected whatever the other arguments are.
C8_ExcludeAbsolute ==
    (entry = "filter_products" /\ f_result # None
        /\ keyword_in(f_args.exclude_keywords, f_args.product.name))
    => f_result[1] = << >>

\* a product that passes every other gate, an include keyword matching its
\* name, is rejected for an exclude keyword of another letter case
C8_Witness ==
    /\ entry = "filter_products"
    /\ f_result = Some(<< >>)
    /\ f_args.product.name = s_kelly_strap
    /\ f_args.include_keywords = << k_kelly >>
    /\ f_args.exclude_keywords = << k_belt, k_STRAP >>
    /\ ~ f_args.require_available
    /\ ~ f_args.only_bags
    /\ f_args.allowed_regions = None

\* C9: filter_products with require_available rejects an unavailable product
\* whatever the other arguments are, and no product notification of a rule
\* set with require_available is for an unavailable product.
C9_RequireAvailable ==
    /\ (entry = "filter_products" /\ f_result # None
           /\ f_args.require_available /\ f_args.product.unavailable)
       => f_result[1] = << >>
    /\ entry = "run_loop" =>
          \A i \in 1..Len(sent) :
              (is_product(sent[i]) /\ sent[i].require_available)
              => ~ sent[i].item.unavailable

\* the merged list holds an unavailable product that is no bag and matches an
\* include keyword of a broadcast rule set with require_available and
\* only_bags, and the round has broadcast another product
C9_Witness ==
    /\ entry = "run_loop"
    /\ pc = "heartbeat"
    /\ config.filter.require_available
    /\ config.filter.only_bags
    /\ \E i \in 1..Len(combined_products) :
          /\ combined_products[i].unavailable
          /\ ~ combined_products[i].is_bag
          /\ keyword_in(config.filter.include_keywords, combined_products[i].name)
    /\ \E k \in 1..Len(sent) : is_broadcast(sent[k])

\* C10: with only_bags, a product that is no bag and whose name holds no
\* include keyword is rejected; one that is no bag and whose name holds an
\* include keyword passes when the other gates let it; with no include
\* keyword configured only bags pass.
C10_CategoryGate ==
    (entry = "filter_products" /\ f_result # None /\ f_args.only_bags) =>
        LET p == f_args.product
            included == keyword_in(f_args.include_keywords, p.name)
        IN  /\ (~ p.is_bag /\ ~ included) => f_result[1] = << >>
            /\ (/\ ~ p.is_bag
                /\ included
                /\ ~ keyword_in(f_args.exclude_keywords, p.name)
                /\ ~ (f_args.require_available /\ p.unavailable)
                /\ f_args.allowed_regions = None)
               => f_result[1] # << >>
            /\ (f_args.include_keywords = << >> /\ f_result[1] # << >>) => p.is_bag

\* a product that is no bag passes with only_bags because an include keyword
\* matched its name
C10_Witness ==
    /\ entry = "filter_products"
    /\ f_result # None
    /\ f_result[1] # << >>
    /\ f_args.only_bags
    /\ ~ f_args.product.is_bag
    /\ f_args.include_keywords = << k_scarf, k_KELLY >>

\* The gates of a rule set, stated on the arguments of a call: each is TRUE
\* when the product of the call is let through by that part of the rule set.
region_listed(regions, region) ==
    \E i \in 1..Len(regions) : regions[i] # << >> /\ lower(regions[i]) = lower(region)

lets_region(a) ==
    a.allowed_regions = None
    \/ (a.product.region # << >> /\ region_listed(a.allowed_regions[1], a.product.region))

include_configured(a) ==
    \E i \in 1..Len(a.include_keywords) : a.include_keywords[i] # << >>

lets_include(a) ==
    include_configured(a) => keyword_in(a.include_keywords, a.product.name)

lets_exclude(a) == ~ keyword_in(a.exclude_keywords, a.product.name)

lets_category(a) ==
    ~ a.only_bags \/ a.product.is_bag \/ keyword_in(a.include_keywords, a.product.name)

lets_available(a) == ~ (a.require_available /\ a.product.unavailable)

\* C11: with an allow-list, a product whose region is absent or is not in the
\* list, letter case aside, is rejected; with the empty allow-list every
\* product is rejected; with no allow-list, or with its region in the list,
\* a product that the other gates let through is accepted.
C11_RegionGate ==
    (entry = "filter_products" /\ f_result # None) =>
        LET p == f_args.product
            ar == f_args.allowed_regions
            others == /\ lets_include(f_args) /\ lets_exclude(f_args)
                      /\ lets_category(f_args) /\ lets_available(f_args)
        IN  /\ (ar # None /\ (p.region = << >> \/ ~ region_listed(ar[1], p.region)))
                  => f_result[1] = << >>
            /\ ar = Some(<< >>) => f_result[1] = << >>
            /\ (ar = None /\ others) => f_result[1] # << >>
            /\ (ar # None /\ p.region # << >> /\ region_listed(ar[1], p.region) /\ others)
                  => f_result[1] # << >>

\* a product of region FR that every other gate lets through is rejected
\* for an allow-list that names TW only
C11_Witness ==
    /\ entry = "filter_products"
    /\ f_result = Some(<< >>)
    /\ f_args.product.region = r_FR
    /\ f_args.allowed_regions = Some(<< << >>, r_TW >>)
    /\ lets_include(f_args) /\ lets_exclude(f_args)
    /\ lets_category(f_args) /\ lets_available(f_args)

\* the first non-empty include keyword, in configured order, that is in name
first_included(kws, name) ==
    kws[CHOOSE i \in 1..Len(kws) :
            /\ kws[i] # << >> /\ str_in(lower(kws[i]), lower(name))
            /\ \A j \in 1..(i - 1) :
                  ~ (kws[j] # << >> /\ str_in(lower(kws[j]), lower(name)))]

\* C12: with a non-empty include keyword configured, a product whose name
\* holds none of them is rejected and an accepted product carries, as
\* configured, the first of them that its name holds; with none configured
\* the product is accepted when the other gates let it through and carries
\* no matched keyword.
C12_IncludeGate ==
    (entry = "filter_products" /\ f_result # None) =>
        LET p == f_args.product
            inc == f_args.include_keywords
            others == /\ lets_region(f_args) /\ lets_exclude(f_args)
                      /\ lets_category(f_args) /\ lets_available(f_args)
        IN  /\ (include_configured(f_args) /\ ~ keyword_in(inc, p.name))
                  => f_result[1] = << >>
            /\ (include_configured(f_args) /\ f_result[1] # << >>)
                  => f_result[1][1].matched_include = Some(first_included(inc, p.name))
            /\ (include_configured(f_args) /\ keyword_in(inc, p.name) /\ others)
                  => f_result[1] # << >>
            /\ (~ include_configured(f_args) /\ others)
                  => /\ f_result[1] # << >>
                     /\ f_result[1][1].matched_include = None

\* the name holds two of the configured keywords, the one configured second
\* earlier in the name, and the product is accepted
C12_Witness ==
    /\ entry = "filter_products"
    /\ f_result # None
    /\ f_result[1] # << >>
    /\ f_args.product.name = s_kelly_strap
    /\ f_args.include_keywords = << << >>, k_strap, k_KELLY >>
    /\ f_result[1][1].matched_include = Some(k_strap)

\* run_loop was left by an exception
raised == pc \in { "raised_write_text", "raised_send_line" }

\* the per-recipient step of the round is over, by completion or exception
line_step_over == pc \in { "heartbeat", "sleep", "raised_send_line" }

\* the rule set of recipient record p applied to item, as arguments of a call
rule_args(p, item) ==
    [ product |-> item,
      include_keywords |-> get(p.include_keywords, << >>),
      exclude_keywords |-> get(p.exclude_keywords, << >>),
      require_available |-> get(p.require_available, TRUE),
      only_bags |-> get(p.only_bags, TRUE),
      allowed_regions |-> p.regions ]

\* item passes the rule set of recipient record p
lets_through(p, item) ==
    LET a == rule_args(p, item)
    IN  /\ lets_region(a) /\ lets_include(a) /\ lets_exclude(a)
        /\ lets_category(a) /\ lets_available(a)

\* notify_until of recipient record p is a time that has not passed at t
not_lapsed(p, t) ==
    /\ p.notify_until # None
    /\ p.notify_until[1].kind = "time"
    /\ t <= p.notify_until[1].at

\* a per-recipient notification of url to user_id is among the round's sends
line_sent(user_id, url) ==
    \E k \in 1..Len(sent) :
        is_line(sent[k]) /\ sent[k].to = user_id /\ sent[k].item.url = url

\* C13: once the per-recipient step of a round with the per-recipient
\* channel enabled is over, every product of the merged list that passes the
\* rule set of a recipient whose notify_until has not passed has been sent
\* to that recipient in the round.
C13_PerRecipientSends ==
    (entry = "run_loop" /\ line_step_over /\ line_enabled(config, line_user_prefs)) =>
        \A i \in 1..Len(line_user_prefs) :
            \A j \in 1..Len(combined_products) :
                (/\ line_user_prefs[i].user_id # ""
                 /\ not_lapsed(line_user_prefs[i], clock)
                 /\ lets_through(line_user_prefs[i], combined_products[j]))
                => line_sent(line_user_prefs[i].user_id, combined_products[j].url)

\* C14: the per-recipient set of sent URLs is empty from the start of a round
\* until its per-recipient step, and once that step is over every product of
\* the merged list that was broadcast in an earlier round and passes the rule
\* set of an active recipient has been sent to that recipient in this round.
C14_NoGlobalDedup ==
    entry = "run_loop" =>
        /\ pc \in { "fetch_main", "fetch_fr", "fetch_tw", "fetch_jp", "broadcast", "line" }
              => line_round_seen = no_round_seen
        /\ (line_step_over /\ line_enabled(config, line_user_prefs)) =>
              \A i \in 1..Len(line_user_prefs) :
                  \A j \in 1..Len(combined_products) :
                      (/\ \E c \in { "c1", "c2" } :
                              << combined_products[j].url, c >> \in bcast_hist
                       /\ combined_products[j].url \in seen
                       /\ line_user_prefs[i].user_id # ""
                       /\ not_lapsed(line_user_prefs[i], clock)
                       /\ lets_through(line_user_prefs[i], combined_products[j]))
                      => line_sent(line_user_prefs[i].user_id, combined_products[j].url)

\* C15: in a round with the broadcast channel disabled in which notify_until
\* of every recipient has passed, nothing is sent: no broadcast
\* notification, no per-recipient notification and no heartbeat.
C15_NoSendWhenAllOff ==
    (/\ entry = "run_loop"
     /\ ~ config.telegram_enabled
     /\ \A i \in 1..Len(line_user_prefs) :
           /\ line_user_prefs[i].notify_until # None
           /\ line_user_prefs[i].notify_until[1].kind = "time"
           /\ clock > line_user_prefs[i].notify_until[1].at)
    => sent = << >>

\* the round is over with the per-recipient channel enabled, the one
\* recipient lapsed and a listed product that passes its rule set
C15_Witness ==
    /\ entry = "run_loop"
    /\ pc = "sleep"
    /\ ~ config.telegram_enabled
    /\ line_enabled(config, line_user_prefs)
    /\ line_user_prefs = one_user.users
    /\ clock > 40
    /\ \E j \in 1..Len(combined_products) :
          lets_through(line_user_prefs[1], combined_products[j])
    /\ sent = << >>

\* the heartbeats among the round's sends
heartbeats == SelectSeq(sent, LAMBDA m : m.kind = "heartbeat")

\* C16: when a round is over, by its sleep or by an exception, and it sent no
\* broadcast notification, it has sent exactly one heartbeat, to the
\* designated recipient and with the per-variant counts; when it sent a
\* broadcast notification it has sent no heartbeat.
C16_Heartbeat ==
    (entry = "run_loop" /\ (pc = "sleep" \/ raised)) =>
        IF \E k \in 1..Len(sent) : is_broadcast(sent[k])
        THEN heartbeats = << >>
        ELSE /\ Len(heartbeats) = 1
             /\ heartbeat_target(config) = Some(heartbeats[1].to)
             /\ heartbeats[1].item = heartbeat_item(products)

\* C17: no send leaves run_loop by an exception.
C17_SenderNeverRaises ==
    entry = "run_loop" => pc # "raised_send_line"

\* C18: run_loop is never left: no call of a round raises past it.
C18_NoTerminalState ==
    entry = "run_loop" => ~ raised

\* C20: the step at the top of a round sets the preferences to the content
\* of the file at that moment, no other step changes them, and every
\* per-recipient notification of the round is to a recipient that a record
\* of these preferences makes active and whose rule set lets the product
\* through.
C20_StoreRereadEachRound ==
    /\ [][ entry = "run_loop" =>
             IF pc = "load" /\ pc' = "fetch_main"
             THEN line_user_prefs' = load_line_user_prefs(store)
             ELSE line_user_prefs' = line_user_prefs ]_vars
    /\ [](entry = "run_loop" =>
             \A k \in 1..Len(sent) :
                 is_line(sent[k]) =>
                     \E i \in 1..Len(line_user_prefs) :
                         /\ line_user_prefs[i].user_id = sent[k].to
                         /\ not_lapsed(line_user_prefs[i], clock)
                         /\ lets_through(line_user_prefs[i], sent[k].item))

\* the file was edited while run_loop ran; a later round notifies the new
\* recipient, and the old one of an unavailable product under its new rules
C20_Witness ==
    /\ entry = "run_loop"
    /\ pc = "heartbeat"
    /\ store = edited_users
    /\ line_user_prefs = edited_users.users
    /\ line_sent("ub", "u1")
    /\ \E k \in 1..Len(sent) :
          is_line(sent[k]) /\ sent[k].to = "ua" /\ sent[k].item.unavailable

\* the positions of category_urls whose request is answered with status 200
answers_200 ==
    { i \in 1..Len(category_urls) : web[category_urls[i]] \in { "ok", "write_raises" } }

\* the least element of a non-empty set of numbers
least(S) == CHOOSE i \in S : \A j \in S : i <= j

\* C19: during the call the URLs requested are a prefix of the candidates in
\* configured order; when the call has returned and some candidate answered
\* with status 200, the document of the first such candidate is returned and
\* no later candidate was requested; None is returned only when no candidate
\* answered with status 200, after every candidate was requested.
C19_FirstSuccessReturned ==
    entry = "fetch_category_soup" =>
        /\ Len(requested) <= Len(category_urls)
        /\ requested = SubSeq(category_urls, 1, Len(requested))
        /\ soup # None =>
              IF answers_200 # { }
              THEN /\ soup[1] = Some(category_urls[least(answers_200)])
                   /\ Len(requested) = least(answers_200)
              ELSE /\ soup[1] = None
                   /\ requested = category_urls

-----------------------------------------------------------------------------
(* Properties of extract_products_from_soup                                *)

extract_returned == entry = "extract_products_from_soup" /\ extracted # None

\* the element yields a record unless an earlier one has its key: its href
\* holds /product/ and its visible text is not empty
yields(a) == str_in(<< "/product/" >>, a.href) /\ strip(a.text) # << >>

same_key(a, r) == strip(a.text) = r.name /\ url_of(a.href) = r.url

\* the position in the document of the first element that yields the key of r
first_at(document, r) ==
    least({ i \in 1..Len(document) : yields(document[i]) /\ same_key(document[i], r) })

\* C21: the list extract_products_from_soup returns holds at most one record
\* for a (name, url) pair.  Every element whose href holds /product/ and
\* whose visible text is not empty has its pair in the list, and no record
\* comes from anything else, so an element with empty text gives none.  The
\* record of a pair is the one of the first element of the document with
\* that pair, whatever the cards of the later ones hold, and the records
\* stand in the order in which their pairs first occur.
C21_UniquePerNameUrl ==
    extract_returned =>
        \E list \in { extracted[1] } :
            /\ \A i, j \in 1..Len(list) :
                   (list[i].name = list[j].name /\ list[i].url = list[j].url) => i = j
            /\ \A i \in 1..Len(soup_document) :
                   yields(soup_document[i]) =>
                       \E j \in 1..Len(list) : same_key(soup_document[i], list[j])
            /\ \A j \in 1..Len(list) :
                   /\ list[j].name # << >>
                   /\ \E i \in 1..Len(soup_document) :
                          yields(soup_document[i]) /\ same_key(soup_document[i], list[j])
                   /\ list[j] = product_record(soup_document[first_at(soup_document, list[j])])
            /\ \A i, j \in 1..Len(list) :
                   i < j => first_at(soup_document, list[i]) < first_at(soup_document, list[j])

\* a document returned one record for two elements of one (name, url) pair
\* whose cards differ, after the record of another pair, and an element
\* with blank text in it gave none
C21_Witness ==
    /\ extract_returned
    /\ Len(soup_document) = 3
    /\ \E i, j \in 1..Len(soup_document) :
           /\ i < j
           /\ yields(soup_document[i]) /\ yields(soup_document[j])
           /\ strip(soup_document[i].text) = strip(soup_document[j].text)
           /\ url_of(soup_document[i].href) = url_of(soup_document[j].href)
           /\ soup_document[i].href # soup_document[j].href
           /\ soup_document[i].card # soup_document[j].card
    /\ \E i \in 1..Len(soup_document) : strip(soup_document[i].text) = << >>
    /\ Len(extracted[1]) = 1

\* C22: a card without a colour attribute whose lines are "Kelly Bag",
\* "Color", "Black", "EUR 3,200", "Unavailable", under a link named "Kelly
\* Bag", is extracted with the colour "Black" (the line after the label
\* line), the price "EUR 3,200", unavailable true and is_bag true.
C22_KellyCard ==
    extract_returned =>
        \A j \in 1..Len(extracted[1]) :
            \E a \in { soup_document[first_at(soup_document, extracted[1][j])] } :
                ( /\ a.card.attr_color = None
                  /\ card_lines(a.card) = << t_kelly_bag, t_color, t_black, t_price_eur, t_unavailable >>
                  /\ strip(a.text) = t_kelly_bag )
                => /\ extracted[1][j].color = Some(t_black)
                   /\ extracted[1][j].price = Some(t_price_eur)
                   /\ extracted[1][j].unavailable = TRUE
                   /\ extracted[1][j].is_bag = TRUE

C22_Witness ==
    /\ extract_returned
    /\ \E j \in 1..Len(extracted[1]) :
           /\ soup_document[first_at(soup_document, extracted[1][j])].card = card_kelly
           /\ extracted[1][j].name = t_kelly_bag
           /\ extracted[1][j].color = Some(t_black)

CurrencySymbols == { "EUR", "YEN", "$" }

has_currency(line) == \E i \in 1..Len(line) : line[i] \in CurrencySymbols

has_digit(line) == \E i \in 1..Len(line) : line[i] \in Digits

\* C28: the price of a record is the first line of its card that holds a
\* currency symbol; when no line holds one it is the first line that holds
\* a digit; when no line holds either it is empty.
C28_PriceLine ==
    extract_returned =>
        \A j \in 1..Len(extracted[1]) :
            \E lines \in { card_lines(soup_document[first_at(soup_document, extracted[1][j])].card) } :
                \E with_symbol \in { { i \in 1..Len(lines) : has_currency(lines[i]) } } :
                    \E with_digit \in { { i \in 1..Len(lines) : has_digit(lines[i]) } } :
                        extracted[1][j].price =
                            IF with_symbol # { } THEN Some(lines[least(with_symbol)])
                            ELSE IF with_digit # { } THEN Some(lines[least(with_digit)])
                            ELSE None

-----------------------------------------------------------------------------
(* Recipient records that omit fields                                      *)

\* recipient record p omits every optional field of its rule set
omits_rule(p) ==
    /\ p.include_keywords = None /\ p.exclude_keywords = None
    /\ p.require_available = None /\ p.only_bags = None /\ p.regions = None

\* C23: a recipient record without notify_until gets no per-recipient
\* notification.  A record that omits require_available is sent available
\* products only, one that omits only_bags and include_keywords is sent
\* bag-class products only.  Once the per-recipient step of a round is
\* complete, a record that omits every optional field of its rule set and
\* whose notify_until has not passed has been sent every available
\* bag-class product of the merged list, whatever its name and region: its
\* keyword lists are empty and its regions unrestricted.
C23_OmittedFields ==
    entry = "run_loop" =>
        \A i \in 1..Len(line_user_prefs) :
            \E p \in { line_user_prefs[i] } :
                /\ p.notify_until = None =>
                       \A k \in 1..Len(sent) : is_line(sent[k]) => sent[k].to # p.user_id
                /\ \A k \in 1..Len(sent) :
                       (is_line(sent[k]) /\ sent[k].to = p.user_id) =>
                           /\ p.require_available = None => ~ sent[k].item.unavailable
                           /\ (p.only_bags = None /\ p.include_keywords = None) => sent[k].item.is_bag
                /\ ( /\ pc = "heartbeat" /\ line_over # None
                     /\ omits_rule(p) /\ not_lapsed(p, now) )
                   => \A n \in 1..Len(combined_products) :
                          \E item \in { combined_products[n] } :
                              (item.is_bag /\ ~ item.unavailable /\ item.url # "")
                              => line_sent(p.user_id, item.url)

\* a round sent an available bag to the recipient whose record has the user
\* id and notify_until only, and the store holds a record without
\* notify_until; the merged list also held a product the defaults reject
C23_Witness ==
    /\ entry = "run_loop" /\ pc = "heartbeat" /\ line_over # None
    /\ \E i, j \in 1..Len(line_user_prefs) :
           /\ omits_rule(line_user_prefs[i]) /\ not_lapsed(line_user_prefs[i], now)
           /\ \E k \in 1..Len(sent) : is_line(sent[k]) /\ sent[k].to = line_user_prefs[i].user_id
           /\ line_user_prefs[j].notify_until = None
    /\ \E n \in 1..Len(combined_products) :
           combined_products[n].unavailable \/ ~ combined_products[n].is_bag

-----------------------------------------------------------------------------
(* Waiting                                                                 *)

\* C24: run_loop spends no time asleep inside a fetch: the clock moves in
\* the inter-round sleep only, the step from "sleep" to the load of the next
\* round, so a variant whose candidates all failed delays neither the
\* variants fetched after it nor the dispatch of the round.  A call of
\* fetch_category_soup with sleep_on_fail false, which is what run_loop
\* passes for every variant, returns None without having slept.
C24_NoSleepInClient ==
    /\ [][ (entry = "run_loop" /\ clock' # clock) => (pc = "sleep" /\ pc' = "load") ]_vars
    /\ []( ( /\ entry = "fetch_category_soup"
             /\ soup = Some(None)
             /\ fail_args.sleep_on_fail = kwargs_sleep_on_fail )
           => slept = 0 )

\* a round past the fetches in which the FR fetch failed with a pause of one
\* minute configured, and the clock still is the round's timestamp
C24_Witness ==
    /\ entry = "run_loop"
    /\ pc = "broadcast"
    /\ fetched["FR"] = "unavailable"
    /\ config.scraper["FR"].pause_minutes_on_fail > 0
    /\ clock = now

-----------------------------------------------------------------------------
(* Channels and the store                                                  *)

\* C25: a channel that is disabled stays disabled.  With the broadcast
\* channel disabled at startup no round sends on it; while the
\* per-recipient channel is disabled (its token missing, or no recipient
\* in the list read last) no round sends on it, and no later step enables
\* it, whatever the store holds afterwards.
C25_DisabledStaysDisabled ==
    /\ []( (entry = "run_loop" /\ ~ config.telegram_enabled) =>
               \A k \in 1..Len(sent) : ~ is_broadcast(sent[k]) )
    /\ []( (entry = "run_loop" /\ ~ config.line_base_enabled) =>
               \A k \in 1..Len(sent) : ~ is_line(sent[k]) )
    /\ [][ (entry = "run_loop" /\ ~ line_enabled(config, line_user_prefs)) =>
               ~ line_enabled(config, line_user_prefs') ]_vars

\* C27: while run_loop runs no step of another process changes the store,
\* and every read of the store by run_loop finds a complete list in it.
C27_SchedulerOnlyWriter ==
    /\ [][ entry = "run_loop" => store' = store ]_vars
    /\ [][ (entry = "run_loop" /\ pc = "load" /\ pc' = "fetch_main") => store.kind = "list" ]_vars

-----------------------------------------------------------------------------
(* The message of a notification                                           *)

\* the include keywords of the rule set that produced a per-recipient
\* notification to user_id
include_keywords_of(user_id) ==
    LET i == CHOOSE i \in 1..Len(line_user_prefs) : line_user_prefs[i].user_id = user_id
    IN  IF line_user_prefs[i].include_keywords = None THEN << >>
        ELSE line_user_prefs[i].include_keywords[1]

\* what the message of a product whose name is name shows under the include
\* keywords kws: the first keyword of kws the name holds, "-" when it holds none
keyword_to_show(kws, name) ==
    IF keyword_in(kws, name) THEN first_included(kws, name) ELSE << "-" >>

\* C26: the message of every product notification of the round, broadcast
\* or per-recipient, shows the first include keyword of the rule set that
\* produced it which the product's name holds, and "-" only when the name
\* holds none of them.
C26_MatchedKeywordShown ==
    entry = "run_loop" =>
        \A k \in 1..Len(sent) :
            is_product(sent[k]) =>
                matched_shown(sent[k].item) =
                    keyword_to_show(IF is_line(sent[k]) THEN include_keywords_of(sent[k].to)
                                    ELSE config.filter.include_keywords,
                                    sent[k].item.name)

-----------------------------------------------------------------------------
(* The global seen set                                                     *)

\* C30: with send_every_poll off, once the broadcast step of a round is
\* over the URL of every product that passed the broadcast filter in the
\* round is in seen, whether or not the broadcast channel is enabled and
\* whether or not Telegram accepted the posts.  No URL leaves seen, and no
\* broadcast notification is sent for a URL that is in seen, so a
\* notification whose posts all failed is not sent again.
C30_SeenBeforeSend ==
    /\ []( (entry = "run_loop" /\ ~ config.send_every_poll /\ bcast_over # None) =>
               \A n \in 1..Len(filtered) :
                   filtered[n].url # "" => filtered[n].url \in seen )
    /\ [][ entry = "run_loop" => seen \subseteq seen' ]_vars
    /\ [][ (entry = "run_loop" /\ ~ config.send_every_poll) =>
               \A k \in (Len(sent) + 1)..Len(sent') :
                   is_broadcast(sent'[k]) => sent'[k].item.url \notin seen ]_vars

\* the broadcast step of a round is over, Telegram accepted none of its
\* posts, and the URL of the product is in seen
C30_Witness ==
    /\ entry = "run_loop" /\ pc = "line"
    /\ ~ config.send_every_poll
    /\ delivered = Some(FALSE)
    /\ \E k \in 1..Len(sent) : is_broadcast(sent[k]) /\ sent[k].item.url \in seen

-----------------------------------------------------------------------------
(* The inter-round sleep                                                   *)

\* the larger of two numbers
larger(a, b) == IF a >= b THEN a ELSE b

\* the minimum of section "polling", the default when it has none, raised to one second
least_sleep ==
    larger(IF config.polling.min_seconds = None THEN DEFAULT_MIN_SECONDS
           ELSE config.polling.min_seconds[1], 1)

\* the maximum of section "polling", the default when it has none, raised to least_sleep
longest_sleep ==
    larger(IF config.polling.max_seconds = None THEN DEFAULT_MAX_SECONDS
           ELSE config.polling.max_seconds[1], least_sleep)

\* C29: the clock of run_loop moves only in the step that ends a round, from
\* "sleep" to the load of the next round, and it moves by a duration between
\* the effective minimum (the configured minimum raised to at least one
\* second) and the effective maximum (the configured maximum raised to at
\* least the effective minimum).  The round number changes in that step
\* only and by one, so a round is followed by exactly one sleep, and the
\* sleep is reached from the heartbeat step only, after all dispatch.
C29_SleepBounds ==
    /\ [][ (entry = "run_loop" /\ (clock' # clock \/ round' # round)) =>
               /\ pc = "sleep" /\ pc' = "load"
               /\ round' = round + 1
               /\ clock' - clock >= least_sleep
               /\ clock' - clock <= longest_sleep ]_vars
    /\ [][ (entry = "run_loop" /\ pc' = "sleep" /\ pc # "sleep") =>
               (pc = "heartbeat" /\ bcast_over # None) ]_vars
    /\ [][ (entry = "run_loop" /\ pc = "sleep" /\ pc' # "sleep") => round' = round + 1 ]_vars

\* the second round of a run whose configured maximum is below its
\* configured minimum
C29_Witness ==
    /\ entry = "run_loop"
    /\ round = 2
    /\ config.polling.min_seconds # None /\ config.polling.max_seconds # None
    /\ config.polling.max_seconds[1] < config.polling.min_seconds[1]
    /\ clock = config.polling.min_seconds[1]

-----------------------------------------------------------------------------
(* What the global seen set gains                                          *)

\* the broadcast rule set applied to item, as arguments of a call
broadcast_args(item) ==
    [ product |-> item,
      include_keywords |-> config.filter.include_keywords,
      exclude_keywords |-> config.filter.exclude_keywords,
      require_available |-> config.filter.require_available,
      only_bags |-> config.filter.only_bags,
      allowed_regions |-> None ]

\* item passes the broadcast filter
passes_broadcast(item) ==
    \E a \in { broadcast_args(item) } :
        /\ lets_include(a) /\ lets_exclude(a) /\ lets_category(a) /\ lets_available(a)

\* url was broadcast in an earlier round
broadcast_before(url) == \E pair \in bcast_hist : pair[1] = url

\* C31: seen gains a URL in the broadcast step only, and only the URL of a
\* product of the round's merged list that passed the broadcast filter; with
\* require_available on that product is listed as available, so a product
\* listed only as unavailable never gets into seen.  With send_every_poll on
\* seen stays empty.  With send_every_poll off and the broadcast channel
\* enabled, once the broadcast step of a round is over every product of the
\* merged list that passes the broadcast filter and was not broadcast in an
\* earlier round has been sent to every chat id in this round.
C31_SeenGainsOnlyPassed ==
    /\ [][ (entry = "run_loop" /\ seen' # seen) =>
               /\ pc = "broadcast"
               /\ \A url \in seen' \ seen :
                      \E n \in 1..Len(combined_products') :
                          \E item \in { combined_products'[n] } :
                              /\ item.url = url
                              /\ passes_broadcast(item)
                              /\ config.filter.require_available => ~ item.unavailable ]_vars
    /\ []( (entry = "run_loop" /\ config.send_every_poll) => seen = { } )
    /\ []( ( /\ entry = "run_loop" /\ bcast_over # None
             /\ ~ config.send_every_poll /\ config.telegram_enabled ) =>
               \A n \in 1..Len(combined_products) :
                   \E item \in { combined_products[n] } :
                       (passes_broadcast(item) /\ item.url # "" /\ ~ broadcast_before(item.url))
                       => \A i \in 1..Len(config.chat_ids) :
                              \E k \in 1..Len(sent) :
                                  /\ is_broadcast(sent[k])
                                  /\ sent[k].to = config.chat_ids[i]
                                  /\ sent[k].item.url = item.url )

\* the second round broadcast the bag u1 and nothing was broadcast in the
\* first round, whose primary fetch returned a document: under the default
\* rule set with require_available on, that document listed the bag as
\* unavailable
C31_Witness ==
    /\ entry = "run_loop" /\ round = 2 /\ pc = "line"
    /\ config.filter = default_rule
    /\ config.telegram_enabled /\ ~ config.send_every_poll
    /\ ~ main_failed
    /\ bcast_hist = { }
    /\ "u1" \in seen
    /\ \E k \in 1..Len(sent) : is_broadcast(sent[k]) /\ sent[k].item.url = "u1"

-----------------------------------------------------------------------------
(* A round that finds no list in the recipient-preference file             *)

\* the file is missing, is being rewritten (empty or the beginning of a
\* JSON text), or holds something that is not a list
no_list_in_store == store.kind \in { "missing", "partial", "mapping" }

\* this step leaves the position pc of run_loop
leaves(position) == entry = "run_loop" /\ pc = position /\ pc' # position

\* C32: a round that reads the recipient-preference file while it holds no
\* list takes the recipient list to be empty; in a round with an empty
\* recipient list no per-recipient notification is sent and no send_line
\* exception ends the loop, the broadcast step sends every product of the
\* merged list that passes the broadcast filter and is not in seen to every
\* chat id, and the per-recipient and heartbeat steps lead on to the sleep.
C32_NoListNoRecipients ==
    /\ [][ (leaves("load") /\ no_list_in_store) => line_user_prefs' = << >> ]_vars
    /\ []( (entry = "run_loop" /\ pc # "load" /\ line_user_prefs = << >>) =>
               /\ \A k \in 1..Len(sent) : ~ is_line(sent[k])
               /\ pc # "raised_send_line" )
    /\ [][ (leaves("broadcast") /\ line_user_prefs = << >>) =>
               /\ pc' = "line"
               /\ config.telegram_enabled =>
                      \A n \in 1..Len(combined_products') :
                          \E item \in { combined_products'[n] } :
                              (passes_broadcast(item)
                               /\ (config.send_every_poll \/ item.url \notin seen))
                              => \A i \in 1..Len(config.chat_ids) :
                                     \E k \in 1..Len(sent') :
                                         /\ is_broadcast(sent'[k])
                                         /\ sent'[k].to = config.chat_ids[i]
                                         /\ sent'[k].item.url = item.url ]_vars
    /\ [][ (leaves("line") /\ line_user_prefs = << >>) =>
               (pc' = "heartbeat" /\ sent' = sent) ]_vars
    /\ [][ (leaves("heartbeat") /\ line_user_prefs = << >>) => pc' = "sleep" ]_vars

\* the second round found no list in the file, which the webhook is
\* rewriting by now, sent the bag u1 to the chat ids and got to its sleep
C32_Witness ==
    /\ entry = "run_loop" /\ round = 2 /\ pc = "sleep"
    /\ store.kind = "partial"
    /\ config.line_base_enabled /\ config.telegram_enabled
    /\ line_user_prefs = << >>
    /\ \E k \in 1..Len(sent) : is_broadcast(sent[k]) /\ sent[k].item.url = "u1"

-----------------------------------------------------------------------------
(* What handling a webhook event does to the recipient-preference file     *)

\* record after holds what record before holds: every key of before has its
\* value, but for an empty NAME, and a key before lacks is absent or has
\* its default (NAME: or the display name)
entry_kept(before, after, display_name) ==
    \A key \in DOMAIN before :
        IF before[key] # None
        THEN \/ after[key] = before[key]
             \/ key = "NAME" /\ ~ truthy(before.NAME) /\ after.NAME = display_name
        ELSE \/ after[key] = None
             \/ key \in DOMAIN DEFAULT_USER_FIELDS
                /\ after[key] = Some(default_user_value(key))
             \/ key = "NAME" /\ after.NAME = display_name

\* the list after holds every record of the list before, at its place
users_kept(before, after, display_name) ==
    /\ Len(after) >= Len(before)
    /\ \A i \in 1..Len(before) : entry_kept(before[i], after[i], display_name)

\* this step ends the handling of an event of a user id, and leaves a list
handled == /\ entry = "do_POST"
           /\ handler.pc # "returned" /\ handler'.pc = "returned"
           /\ truthy(handler'.user_id)
           /\ users_json'.kind = "list"

\* C33: the list the handler writes over a file that holds a list keeps every
\* record of that file, with the value of every key the record has (an empty
\* NAME may be filled); when the handling of an event of user id u is over
\* the file holds exactly one record of u, and if the handler found none it
\* is the last record and its notify_until is before the time of the event.
C33_HandlerKeepsRecords ==
    /\ [][ (entry = "do_POST" /\ handler.pc = "changed" /\ handler'.pc = "opened"
            /\ users_json.kind = "list") =>
               users_kept(users_json.users, handler.users, handler.display_name) ]_vars
    /\ [][ handled =>
               \E u \in { handler'.user_id[1] } :
               \E after \in { users_json'.users } :
                   /\ Cardinality(matching(after, u)) = 1
                   /\ ~ handler'.found =>
                          /\ after[Len(after)].user_id = Some(u)
                          /\ ~ not_lapsed(after[Len(after)], hook_now) ]_vars

\* the list in memory keeps every record of the list the handler read
ReadKeepsRecords ==
    [][ (entry = "do_POST" /\ handler.pc = "idle" /\ handler'.pc # "idle"
         /\ truthy(handler'.user_id) /\ users_json.kind = "list") =>
            users_kept(users_json.users, handler'.users, handler'.display_name) ]_vars

\* the handler adds one record of u when it found none, and none otherwise
OneRecordAdded ==
    [][ (entry = "do_POST" /\ handler.pc = "idle" /\ handler'.pc # "idle"
         /\ truthy(handler'.user_id) /\ users_json.kind # "unparsable") =>
            \E u \in { handler'.user_id[1] } :
            \E before \in { users_read(users_json) } :
            \E after \in { handler'.users } :
                IF matching(before, u) = { }
                THEN /\ Len(after) = Len(before) + 1
                     /\ matching(after, u) = { Len(after) }
                     /\ ~ not_lapsed(after[Len(after)], hook_now)
                ELSE /\ Len(after) = Len(before)
                     /\ matching(after, u) = matching(before, u) ]_vars

====
